---------------------------- MODULE Spec2Model ----------------------------
(***************************************************************************)
(* A model of the single-header JSON library json.h (src/unnamed/part_000) *)
(* and of its demonstration program (src/main.cpp): the Lexer, the Parser, *)
(* the Node printer, the binding Elements and the Template handle.         *)
(*                                                                         *)
(* Text is a sequence of one-character strings.  The end of the stream,    *)
(* which std::istream::get() reports as a negative int, is EOF.            *)
(***************************************************************************)
EXTENDS Integers, Sequences, FiniteSets, TLC

VARIABLES
    input,      \* the character stream handed to parse(std::istream&)
    parsed,     \* the outcome of parse on input, or NotParsed
    tree,       \* a Node tree: built by hand, or the last one synthetized
    tpls,       \* the caller's Template objects: whether each is alive, its m_impl
    heap,       \* the Elements on the free store
    store,      \* the caller's variables that Elements are bound to
    call,       \* the last Template call and how it ended
    lexer,      \* the caller's Lexer over input, or NoLexer
    shown       \* the call the caller last made on lexer and the Token it returned

vars == <<input, parsed, tree, tpls, heap, store, call, lexer, shown>>

\* The variables of the binding layer
lib == <<tpls, heap, store, call>>

(***************************************************************************)
(* Characters                                                              *)
(***************************************************************************)
EOF == "EOF"

Digits == {"0", "1", "2", "3", "4", "5", "6", "7", "8", "9"}

\* std::isdigit
IsDigit(c) == c \in Digits

\* std::isspace in the "C" locale (and the explicit test for '\n')
IsSpace(c) == c \in {" ", "\t", "\n", "\r", "\f"}

(***************************************************************************)
(* Token                                                                   *)
(***************************************************************************)
Token(type, value) == [type |-> type, value |-> value, empty |-> TRUE, line |-> 0, column |-> 0]

BadToken == Token("Bad", <<>>)

\* Token::setInfo
SetInfo(tok, line, column) == [tok EXCEPT !.empty = FALSE, !.line = line, !.column = column]

(***************************************************************************)
(* Lexer.  A lexer state is the record                                     *)
(*   in     the stream m_in, pos the index in it of m_nextChar,            *)
(*   line, column   m_currentInfo,   nextToken   m_nextToken.              *)
(***************************************************************************)
NextChar(lx) == IF lx.pos <= Len(lx.in) THEN lx.in[lx.pos] ELSE EOF

\* Lexer::M_getChar: the character returned is NextChar of the state before.
M_getChar(lx) ==
    [lx EXCEPT !.pos = IF lx.pos <= Len(lx.in) THEN lx.pos + 1 ELSE lx.pos,
               !.line = IF NextChar(lx) = "\n" THEN lx.line + 1 ELSE lx.line,
               !.column = IF NextChar(lx) = "\n" THEN 1 ELSE lx.column + 1]

RECURSIVE M_skipWs(_)
M_skipWs(lx) ==
    IF IsSpace(NextChar(lx))
    THEN LET l1 == M_getChar(lx)
         IN  IF NextChar(l1) = EOF THEN l1 ELSE M_skipWs(l1)
    ELSE lx

\* The inner loop of M_skipComments: runs to the end of the line; eof tells
\* that the function returned from inside the loop.
RECURSIVE SkipLine(_)
SkipLine(lx) ==
    IF NextChar(lx) # "\n"
    THEN LET l1 == M_getChar(lx)
         IN  IF NextChar(l1) = EOF THEN [lx |-> l1, eof |-> TRUE] ELSE SkipLine(l1)
    ELSE [lx |-> lx, eof |-> FALSE]

RECURSIVE M_skipComments(_)
M_skipComments(lx) ==
    IF NextChar(lx) = "#"
    THEN LET r == SkipLine(lx)
         IN  IF r.eof THEN r.lx ELSE M_skipComments(M_skipWs(r.lx))
    ELSE lx

M_skip(lx) == M_skipWs(M_skipComments(M_skipWs(lx)))

\* Lexer::M_matchKeyword, from character i of kw
RECURSIVE MatchFrom(_, _, _, _)
MatchFrom(lx, type, kw, i) ==
    IF NextChar(lx) # kw[i] THEN [tok |-> BadToken, lx |-> lx]
    ELSE IF i = Len(kw) THEN [tok |-> Token(type, <<>>), lx |-> lx]
    ELSE MatchFrom(M_getChar(lx), type, kw, i + 1)

M_matchKeyword(lx, type, kw) == MatchFrom(lx, type, kw, 1)

\* A scan in progress is [lx, value, ok]: the lexer, the text read and the flag.
\* The loop of the include rule: while (ok && m_nextChar != '"')
RECURSIVE IncludeLoop(_)
IncludeLoop(r) ==
    IF r.ok /\ NextChar(r.lx) # "\""
    THEN IncludeLoop([lx |-> M_getChar(r.lx), value |-> Append(r.value, NextChar(r.lx)),
                      ok |-> NextChar(r.lx) # EOF])
    ELSE r

\* if (m_nextChar != '"') ok = false; on leaving a rule's loop
Closed(r, type) ==
    [tok |-> IF r.ok /\ NextChar(r.lx) = "\"" THEN Token(type, r.value) ELSE BadToken,
     lx |-> r.lx]

\* The include rule: M_getChar() eats the '@'; the next character must be
\* the opening quote, which the second M_getChar() eats whatever it is.
LexInclude(lx) ==
    Closed(IncludeLoop([lx |-> M_getChar(M_getChar(lx)), value |-> <<>>,
                        ok |-> NextChar(M_getChar(lx)) = "\""]), "Include")

\* The character that stands for the escape sequence \ch; "" when there is none
Unescaped(ch) ==
    CASE ch = "\\" -> "\\"
      [] ch = "\"" -> "\""
      [] ch = "n" -> "\n"
      [] ch = "t" -> "t"
      [] OTHER -> ""

\* case '\\' of the string rule: r.lx is at the backslash
StringEscape(r) ==
    [lx |-> M_getChar(M_getChar(r.lx)),
     value |-> IF Unescaped(NextChar(M_getChar(r.lx))) = "" THEN r.value
               ELSE Append(r.value, Unescaped(NextChar(M_getChar(r.lx)))),
     ok |-> Unescaped(NextChar(M_getChar(r.lx))) # ""]

\* The loop of the string rule: while (ok && m_nextChar != '"')
RECURSIVE StringLoop(_)
StringLoop(r) ==
    IF r.ok /\ NextChar(r.lx) # "\""
    THEN IF NextChar(r.lx) = "\\"
         THEN StringLoop(StringEscape(r))
         ELSE StringLoop([lx |-> M_getChar(r.lx), value |-> Append(r.value, NextChar(r.lx)),
                          ok |-> NextChar(r.lx) # EOF])
    ELSE r

LexString(lx) ==
    Closed(StringLoop([lx |-> M_getChar(lx), value |-> <<>>, ok |-> TRUE]), "String")

\* value += M_getChar(); if (m_nextChar < 0) ok = false;
EatInto(r) ==
    [lx |-> M_getChar(r.lx), value |-> Append(r.value, NextChar(r.lx)),
     ok |-> r.ok /\ NextChar(M_getChar(r.lx)) # EOF]

\* while (ok && std::isdigit(m_nextChar)) of the number rule
RECURSIVE DigitLoop(_)
DigitLoop(r) == IF r.ok /\ IsDigit(NextChar(r.lx)) THEN DigitLoop(EatInto(r)) ELSE r

\* if (!std::isdigit(m_nextChar)) ok = false; and the loop over the digits
NeedDigits(r) == DigitLoop([r EXCEPT !.ok = r.ok /\ IsDigit(NextChar(r.lx))])

NumberSign(r) == IF NextChar(r.lx) = "-" THEN EatInto(r) ELSE r

NumberFraction(r) == IF r.ok /\ NextChar(r.lx) = "." THEN NeedDigits(EatInto(r)) ELSE r

NumberExponent(r) ==
    IF r.ok /\ NextChar(r.lx) \in {"e", "E"} THEN NeedDigits(NumberSign(EatInto(r))) ELSE r

NumberToken(r) ==
    [tok |-> IF r.ok THEN Token("Number", r.value) ELSE BadToken, lx |-> r.lx]

LexNumber(lx) ==
    NumberToken(NumberExponent(NumberFraction(DigitLoop(NumberSign(
        [lx |-> lx, value |-> <<>>, ok |-> TRUE])))))

IsNumberStart(c) == c = "-" \/ c = "." \/ IsDigit(c)

\* The include rule or the string rule of the last branch of M_getToken
FirstRule(lx) ==
    IF NextChar(lx) = "@" THEN LexInclude(lx)
    ELSE IF NextChar(lx) = "\"" THEN LexString(lx)
    ELSE [tok |-> BadToken, lx |-> lx]

\* The number rule, which is a plain `if' and so runs on whatever character
\* the rule before it stopped at; it sets eatlast to false.
NumberRule(a) ==
    IF IsNumberStart(NextChar(a.lx))
    THEN [eatlast |-> FALSE] @@ LexNumber(a.lx)
    ELSE [eatlast |-> TRUE] @@ a

LexOther(lx) == NumberRule(FirstRule(lx))

Punctuation(c) ==
    CASE c = "{" -> "LeftBrace"
      [] c = "}" -> "RightBrace"
      [] c = "[" -> "LeftBracket"
      [] c = "]" -> "RightBracket"
      [] c = "," -> "Comma"
      [] c = ":" -> "Colon"

\* The switch of M_getToken on m_nextChar, after the skip
Rule(lx) ==
    IF NextChar(lx) \in {"{", "}", "[", "]", ",", ":"}
        THEN [tok |-> Token(Punctuation(NextChar(lx)), <<>>), lx |-> lx, eatlast |-> TRUE]
    ELSE IF NextChar(lx) = "t"
        THEN [eatlast |-> TRUE] @@ M_matchKeyword(lx, "True", <<"t", "r", "u", "e">>)
    ELSE IF NextChar(lx) = "f"
        THEN [eatlast |-> TRUE] @@ M_matchKeyword(lx, "False", <<"f", "a", "l", "s", "e">>)
    ELSE IF NextChar(lx) = "n"
        THEN [eatlast |-> TRUE] @@ M_matchKeyword(lx, "Null", <<"n", "u", "l", "l">>)
    ELSE LexOther(lx)

\* if (eatlast && token.type() != Token::Bad) M_getChar(); token.setInfo(info)
Eaten(lx, r) ==
    [tok |-> SetInfo(r.tok, lx.line, lx.column),
     lx |-> IF r.eatlast /\ r.tok.type # "Bad" THEN M_getChar(r.lx) ELSE r.lx]

\* M_getToken once M_skip has run
Scan(lx) ==
    IF NextChar(lx) = EOF
    THEN [tok |-> SetInfo(Token("Eof", <<>>), lx.line, lx.column), lx |-> lx]
    ELSE Eaten(lx, Rule(lx))

\* Lexer::M_getToken: the token and the lexer state after it
M_getToken(lx) == Scan(M_skip(lx))

\* m_nextToken = M_getToken()
Store(t) == [t.lx EXCEPT !.nextToken = t.tok]

\* Lexer::Lexer and Lexer::M_init
NewLexer(in) ==
    Store(M_getToken([in |-> in, pos |-> 1, line |-> 1, column |-> 1, nextToken |-> BadToken]))

\* Lexer::seek
seek(lx) == lx.nextToken

\* Lexer::get: the lexer state after the call
get(lx) == Store(M_getToken(lx))

\* Token tok = m_nextToken; ... return tok; of Lexer::get, returning the token
\* stored by the call itself
get_late(lx) == seek(get(lx))

\* Token tok = m_nextToken; ... return tok; of Lexer::get
get_tok(lx) == seek(lx)

\* No Lexer constructed yet, and no call made on it
NoLexer == [in |-> <<>>, pos |-> 0, line |-> 0, column |-> 0, nextToken |-> BadToken]

NoToken == [op |-> "none", token |-> BadToken]


(***************************************************************************)
(* Numbers.  A float is modelled by the decimal m * 10^x it stands for,    *)
(* normalised so that m has no trailing zero (and x = 0 when m = 0).       *)
(***************************************************************************)
RECURSIVE Pow10(_)
Pow10(n) == IF n <= 0 THEN 1 ELSE 10 * Pow10(n - 1)

Abs(n) == IF n < 0 THEN -n ELSE n

RECURSIVE Normalise(_, _)
Normalise(m, x) ==
    IF m = 0 THEN [m |-> 0, x |-> 0]
    ELSE IF m % 10 = 0 THEN Normalise(m \div 10, x + 1)
    ELSE [m |-> m, x |-> x]

Dec(n) == Normalise(n, 0)

DigitValue(c) ==
    CASE c = "0" -> 0 [] c = "1" -> 1 [] c = "2" -> 2 [] c = "3" -> 3 [] c = "4" -> 4
      [] c = "5" -> 5 [] c = "6" -> 6 [] c = "7" -> 7 [] c = "8" -> 8 [] c = "9" -> 9

DigitChar(d) == <<"0", "1", "2", "3", "4", "5", "6", "7", "8", "9">>[d + 1]

\* The digits of text from index i on: their value, their count, the index after
RECURSIVE ReadDigits(_, _, _, _)
ReadDigits(text, i, acc, n) ==
    IF i <= Len(text) /\ IsDigit(text[i])
    THEN ReadDigits(text, i + 1, acc * 10 + DigitValue(text[i]), n + 1)
    ELSE [value |-> acc, count |-> n, next |-> i]

\* std::stof on the text of a Number token, with M_atom's catch: the longest
\* prefix that is a decimal floating literal; 0 when there is none.
Stof(text) ==
    LET neg == Len(text) >= 1 /\ text[1] = "-"
        i0 == IF neg THEN 2 ELSE 1
        ip == ReadDigits(text, i0, 0, 0)
        dot == ip.next <= Len(text) /\ text[ip.next] = "."
        fp == IF dot THEN ReadDigits(text, ip.next + 1, ip.value, 0)
              ELSE [value |-> ip.value, count |-> 0, next |-> ip.next]
        i1 == IF dot /\ fp.count = 0 /\ ip.count = 0 THEN ip.next ELSE fp.next
        hasE == i1 <= Len(text) /\ text[i1] \in {"e", "E"}
        eneg == hasE /\ i1 + 1 <= Len(text) /\ text[i1 + 1] = "-"
        ep == IF hasE THEN ReadDigits(text, IF eneg THEN i1 + 2 ELSE i1 + 1, 0, 0)
              ELSE [value |-> 0, count |-> 0, next |-> i1]
        exp == IF ep.count = 0 THEN 0 ELSE IF eneg THEN -ep.value ELSE ep.value
        mant == IF neg THEN -fp.value ELSE fp.value
    IN  IF ip.count = 0 /\ fp.count = 0 THEN Dec(0)
        ELSE Normalise(mant, exp - fp.count)

(***************************************************************************)
(* Nodes.  Every node is a record of the same shape; the field its type    *)
(* does not use holds a fixed filler.  An ObjectNode's m_impl, a           *)
(* std::map<std::string, Node*>, is the sequence of its entries in the     *)
(* map's iteration order (ascending keys).  NullPtr is the null Node*.     *)
(***************************************************************************)
MkNode(type, number, boolean, string, impl) ==
    [type |-> type, number |-> number, boolean |-> boolean, string |-> string, impl |-> impl]

NumberNode(v) == MkNode("Number", v, FALSE, <<>>, <<>>)
BooleanNode(b) == MkNode("Boolean", Dec(0), b, <<>>, <<>>)
StringNode(s) == MkNode("String", Dec(0), FALSE, s, <<>>)
NullNode == MkNode("Null", Dec(0), FALSE, <<>>, <<>>)
ObjectNode(impl) == MkNode("Object", Dec(0), FALSE, <<>>, impl)
ArrayNode(impl) == MkNode("Array", Dec(0), FALSE, <<>>, impl)
NullPtr == MkNode("nullptr", Dec(0), FALSE, <<>>, <<>>)

\* The characters in the order of their codes (std::string compares bytes).
CharOrder ==
    <<"\t", "\n", " ", "\"", "#", "+", ",", "-", ".",
      "0", "1", "2", "3", "4", "5", "6", "7", "8", "9", ":", "@", "E",
      "[", "\\", "]", "a", "b", "c", "d", "e", "f", "l", "n", "r", "s", "t", "u", "x",
      "{", "}">>

CharCode(c) == CHOOSE i \in 1..Len(CharOrder) : CharOrder[i] = c

\* std::less<std::string>
RECURSIVE StrLessFrom(_, _, _)
StrLessFrom(a, b, i) ==
    IF i > Len(b) THEN FALSE
    ELSE IF i > Len(a) THEN TRUE
    ELSE IF a[i] = b[i] THEN StrLessFrom(a, b, i + 1)
    ELSE CharCode(a[i]) < CharCode(b[i])

StrLess(a, b) == StrLessFrom(a, b, 1)

\* std::map::find(key) != end()
MapHas(m, key) == \E i \in 1..Len(m) : m[i].key = key

\* std::map::at(key), for a key the map holds
MapAt(m, key) == m[CHOOSE i \in 1..Len(m) : m[i].key = key].value

\* operator[] as it would be on a container that keeps the order of insertion
MapPut_append(m, key, value) ==
    IF MapHas(m, key)
    THEN [i \in 1..Len(m) |-> IF m[i].key = key THEN [key |-> key, value |-> value] ELSE m[i]]
    ELSE Append(m, [key |-> key, value |-> value])

\* std::map::operator[](key) = value
MapPut(m, key, value) ==
    IF MapHas(m, key)
    THEN [i \in 1..Len(m) |-> IF m[i].key = key THEN [key |-> key, value |-> value] ELSE m[i]]
    ELSE LET n == Cardinality({i \in 1..Len(m) : StrLess(m[i].key, key)})
         IN  SubSeq(m, 1, n) \o <<[key |-> key, value |-> value]>> \o SubSeq(m, n + 1, Len(m))

MapKeys(m) == {m[i].key : i \in 1..Len(m)}

(***************************************************************************)
(* Parser.  An outcome is [ok, node, lx, err]: the node built and the      *)
(* lexer after it, or the exception thrown.                                *)
(***************************************************************************)
NoError == [kind |-> "none", what |-> "", token |-> BadToken]

Ok(node, lx) == [ok |-> TRUE, node |-> node, lx |-> lx, err |-> NoError]

Throw(kind, what, token) ==
    [ok |-> FALSE, node |-> NullPtr, lx |-> [in |-> <<>>, pos |-> 1, line |-> 1, column |-> 1, nextToken |-> BadToken],
     err |-> [kind |-> kind, what |-> what, token |-> token]]

TokenError(token, what) == Throw("TokenError", what, token)

\* The files an include directive can name, and their contents.
IncludedFile == <<"f">>
SelfIncludingFile == <<"s">>

FileExists(path) == path \in {IncludedFile, SelfIncludingFile}

FileText(path) ==
    IF path = IncludedFile THEN <<"[", "1", "]">>
    ELSE <<"[", "@", "\"", "s", "\"", "]">>

\* How many nested parse(file) calls the stack holds before it is exhausted.
MaxIncludeDepth == 2

\* exists as it would be if it never found the key
exists_never(impl, key) == FALSE

\* ObjectNode::exists
exists(impl, key) == MapHas(impl, key)

\* ObjectNode::get(key) on a node that is not const: m_impl[key], which puts
\* a null Node* under a key the map does not hold.  The map after the call.
ObjectNode_get(impl, key) == IF MapHas(impl, key) THEN impl ELSE MapPut(impl, key, NullPtr)

RECURSIVE M_atom(_, _)
RECURSIVE M_object(_, _)
RECURSIVE M_array(_, _)
RECURSIVE ObjectEntries(_, _, _)
RECURSIVE ArrayEntries(_, _, _)
RECURSIVE ParseStream(_, _)

\* parse(std::string const& file)
ParseFile(path, fuel) ==
    IF ~FileExists(path) THEN Throw("runtime_error", "json::parse: unable to open", BadToken)
    ELSE IF fuel = 0 THEN Throw("stack_exhausted", "", BadToken)
    ELSE ParseStream(FileText(path), fuel - 1)

\* case Token::Include of M_atom, once parse(file) has returned or thrown
Included(sub, lx) == IF sub.ok THEN Ok(sub.node, get(lx)) ELSE sub

M_atom(lx, fuel) ==
    CASE seek(lx).type = "Bad" -> TokenError(seek(lx), "bad token")
      [] seek(lx).type \in {"True", "False"} -> Ok(BooleanNode(seek(lx).type = "True"), get(lx))
      [] seek(lx).type = "Null" -> Ok(NullNode, get(lx))
      [] seek(lx).type = "Number" -> Ok(NumberNode(Stof(seek(lx).value)), get(lx))
      [] seek(lx).type = "String" -> Ok(StringNode(seek(lx).value), get(lx))
      [] seek(lx).type = "LeftBrace" -> M_object(lx, fuel)
      [] seek(lx).type = "LeftBracket" -> M_array(lx, fuel)
      [] seek(lx).type = "Include" -> Included(ParseFile(seek(lx).value, fuel), lx)
      [] OTHER -> Ok(NullPtr, lx)

\* The end of one turn of M_object's loop: a is the outcome of M_atom for the
\* entry key; the entry is stored, and a comma starts another turn.
ObjectStore(a, impl, key, fuel) ==
    IF ~a.ok THEN a
    ELSE IF seek(a.lx).type = "Comma"
         THEN ObjectEntries(get(a.lx), MapPut(impl, key, a.node), fuel)
         ELSE Ok(ObjectNode(MapPut(impl, key, a.node)), a.lx)

\* The for (;;) of M_object: the outcome carries the entries in node
ObjectEntries(lx, impl, fuel) ==
    IF seek(lx).type = "RightBrace" THEN Ok(ObjectNode(impl), lx)
    ELSE IF seek(lx).type # "String" THEN TokenError(seek(lx), "expected a identifier key")
    ELSE IF exists(impl, seek(lx).value)
         THEN TokenError(seek(lx), "redifinition of object entry")
    ELSE IF seek(get(lx)).type # "Colon"
         THEN TokenError(seek(get(lx)), "expected `:' after identifier")
    ELSE ObjectStore(M_atom(get(get(lx)), fuel), impl, seek(lx).value, fuel)

\* The end of M_object, after the loop
ObjectClose(r) ==
    IF ~r.ok THEN r
    ELSE IF seek(r.lx).type # "RightBrace"
         THEN TokenError(seek(r.lx), "expected `}' at end of object declaration")
         ELSE Ok(r.node, get(r.lx))

M_object(lx, fuel) ==
    IF seek(lx).type # "LeftBrace"
    THEN TokenError(seek(lx), "expected `{' at beginning of object declaration")
    ELSE ObjectClose(ObjectEntries(get(lx), <<>>, fuel))

\* The end of one turn of M_array's loop: a is the outcome of M_atom
ArrayStore(a, impl, fuel) ==
    IF ~a.ok THEN a
    ELSE IF seek(a.lx).type = "Comma"
         THEN ArrayEntries(get(a.lx), Append(impl, a.node), fuel)
         ELSE Ok(ArrayNode(Append(impl, a.node)), a.lx)

\* The for (;;) of M_array
ArrayEntries(lx, impl, fuel) ==
    IF seek(lx).type = "RightBracket" THEN Ok(ArrayNode(impl), lx)
    ELSE ArrayStore(M_atom(lx, fuel), impl, fuel)

\* The end of M_array, after the loop
ArrayClose(r) ==
    IF ~r.ok THEN r
    ELSE IF seek(r.lx).type # "RightBracket"
         THEN TokenError(seek(r.lx), "expected `]' at end of array declaration")
         ELSE Ok(r.node, get(r.lx))

M_array(lx, fuel) ==
    IF seek(lx).type # "LeftBracket"
    THEN TokenError(seek(lx), "expected `[' at beginning of array definition")
    ELSE ArrayClose(ArrayEntries(get(lx), <<>>, fuel))

\* return M_object() or return M_array() of Parser::parse, as it would be
\* if it required the end of the input after the value
ToTheEnd(r) ==
    IF r.ok /\ seek(r.lx).type # "Eof" THEN TokenError(seek(r.lx), "expected end of input") ELSE r

\* Parser::parse as it would be if it read the whole input
Parser_parse_whole(lx, fuel) ==
    ToTheEnd(IF seek(lx).type = "LeftBrace" THEN M_object(lx, fuel) ELSE M_array(lx, fuel))

\* Parser::parse
Parser_parse(lx, fuel) ==
    IF seek(lx).type = "LeftBrace" THEN M_object(lx, fuel) ELSE M_array(lx, fuel)

\* parse(std::istream&): a Parser on a fresh Lexer
ParseStream(in, fuel) == Parser_parse(NewLexer(in), fuel)

\* What the caller of parse sees: the tree, or the exception.
Outcome(r) == [ok |-> r.ok, node |-> r.node, err |-> r.err]

parse(in) == Outcome(ParseStream(in, MaxIncludeDepth))

(***************************************************************************)
(* Printer                                                                 *)
(***************************************************************************)
RECURSIVE DigitsOf(_)
DigitsOf(n) == IF n < 10 THEN <<DigitChar(n)>> ELSE Append(DigitsOf(n \div 10), DigitChar(n % 10))

RECURSIVE Zeros(_)
Zeros(n) == IF n <= 0 THEN <<>> ELSE <<"0">> \o Zeros(n - 1)

\* The precision of an ostream that was given none: six significant digits.
Precision == 6

\* m rounded to Precision significant digits, the tie to the even digit:
\* the decimal [m, x] with |m| < 10^Precision that operator<< prints.
RoundSix(m, x) ==
    LET n == Len(DigitsOf(m))
        cut == Pow10(n - Precision)
        q == m \div cut
        r == m % cut
        up == 2 * r > cut \/ (2 * r = cut /\ q % 2 = 1)
    IN  IF n <= Precision THEN Normalise(m, x)
        ELSE Normalise(IF up THEN q + 1 ELSE q, x + (n - Precision))

\* std::ostream << float: printf's %g with the default precision
FormatFloat(v) ==
    LET d == RoundSix(Abs(v.m), v.x)
        ds == DigitsOf(d.m)
        nd == Len(ds)
        X == nd - 1 + d.x                       \* the exponent of the first digit
        sign == IF v.m < 0 THEN <<"-">> ELSE <<>>
        exp == DigitsOf(Abs(X))
        body == IF X < -4 \/ X >= Precision
                THEN <<ds[1]>> \o (IF nd > 1 THEN <<".">> \o SubSeq(ds, 2, nd) ELSE <<>>)
                     \o <<"e", IF X < 0 THEN "-" ELSE "+">>
                     \o (IF Len(exp) < 2 THEN <<"0">> ELSE <<>>) \o exp
                ELSE IF X >= 0
                THEN SubSeq(ds \o Zeros(X + 1 - nd), 1, X + 1)
                     \o (IF nd > X + 1 THEN <<".">> \o SubSeq(ds, X + 2, nd) ELSE <<>>)
                ELSE <<"0", ".">> \o Zeros(-X - 1) \o ds
    IN  IF v.m = 0 THEN <<"0">> ELSE sign \o body

\* StringNode::escapedValue
RECURSIVE escapedValue(_)
escapedValue(value) ==
    IF value = <<>> THEN <<>>
    ELSE LET c == Head(value)
             e == IF c = "\n" THEN <<"\\", "n">>
                  ELSE IF c = "\t" THEN <<"\\", "t">>
                  ELSE IF c = "\"" THEN <<"\\", "\"">>
                  ELSE <<c>>
         IN  e \o escapedValue(Tail(value))

RECURSIVE Spaces(_)
Spaces(n) == IF n <= 0 THEN <<>> ELSE <<" ">> \o Spaces(n - 1)

\* Node::M_multiline
RECURSIVE M_multiline(_)
M_multiline(node) ==
    CASE node.type = "Object" -> TRUE
      [] node.type = "Array" -> \E i \in 1..Len(node.impl) : M_multiline(node.impl[i])
      [] OTHER -> FALSE

Endl(indent) == IF indent THEN <<"\n">> ELSE <<>>

\* Node::M_serialize, on a tree without null children
RECURSIVE M_serialize(_, _, _)
RECURSIVE SerializeEntries(_, _, _, _)
RECURSIVE SerializeItems(_, _, _, _, _)

\* The loop of ObjectNode::M_serialize from entry i on
SerializeEntries(impl, i, level, indent) ==
    IF i > Len(impl) THEN <<>>
    ELSE LET child == impl[i].value
         IN  (IF indent THEN Spaces(level) \o Spaces(4) ELSE <<>>)
             \o <<"\"">> \o impl[i].key \o <<"\"", ":", " ">>
             \o (IF indent /\ M_multiline(child)
                 THEN <<"\n">> \o M_serialize(child, level + 4, indent)
                 ELSE M_serialize(child, 0, FALSE))
             \o (IF i # Len(impl) THEN <<",", " ">> ELSE <<>>)
             \o Endl(indent)
             \o SerializeEntries(impl, i + 1, level, indent)

\* The loop of ArrayNode::M_serialize from element i on
SerializeItems(impl, i, level, indent, multi) ==
    IF i > Len(impl) THEN <<>>
    ELSE (IF multi THEN M_serialize(impl[i], level + 4, indent)
                   ELSE M_serialize(impl[i], 0, FALSE))
         \o (IF i # Len(impl) THEN <<",", " ">> ELSE <<>>)
         \o Endl(multi)
         \o SerializeItems(impl, i + 1, level, indent, multi)

M_serialize(node, level, indent) ==
    LET pre == IF indent THEN Spaces(level) ELSE <<>>
    IN  CASE node.type = "Number" -> pre \o FormatFloat(node.number)
          [] node.type = "Boolean" -> pre \o (IF node.boolean THEN <<"t", "r", "u", "e">>
                                                              ELSE <<"f", "a", "l", "s", "e">>)
          [] node.type = "String" -> pre \o <<"\"">> \o escapedValue(node.string) \o <<"\"">>
          [] node.type = "Null" -> pre \o <<"n", "u", "l", "l">>
          [] node.type = "Object" ->
                pre \o <<"{">> \o Endl(indent)
                \o SerializeEntries(node.impl, 1, level, indent) \o pre \o <<"}">>
          [] node.type = "Array" ->
                LET multi == indent /\ M_multiline(node)
                IN  pre \o <<"[">> \o Endl(multi)
                    \o SerializeItems(node.impl, 1, level, indent, multi) \o pre \o <<"]">>

\* serialize(Node*, std::ostream&, bool indent)
serialize(node, indent) == M_serialize(node, 0, indent)

(***************************************************************************)
(* Bound values.  A variable of the caller is a record of one shape: type  *)
(* names its C++ type, and the field of that type holds its value.         *)
(*   "int"     int32_t                      in int                         *)
(*   "string"  std::string                  in text                        *)
(*   "vector"  std::vector<int32_t>         in list                        *)
(*   "map"     std::map<std::string, int32_t> in dict, in key order        *)
(***************************************************************************)
MkValue(type, int, text, list, dict) ==
    [type |-> type, int |-> int, text |-> text, list |-> list, dict |-> dict,
     alloc |-> FALSE, width |-> 0]

IntValue(n) == MkValue("int", n, <<>>, <<>>, <<>>)
StringValue(s) == MkValue("string", 0, s, <<>>, <<>>)
VectorValue(l) == MkValue("vector", 0, <<>>, l, <<>>)
MapValue(d) == MkValue("map", 0, <<>>, <<>>, d)

\* A T tagged by ref_as_pod: list holds the sizeof(T) bytes of the object
PodValue(bytes) == MkValue("pod", 0, <<>>, bytes, <<>>)

\* A T* and a std::size_t tagged by ref_as_raw: alloc tells whether the
\* pointer is non-null, int is the std::size_t, width is sizeof(T) and list
\* holds the bytes the pointer points to
RawValue(alloc, size, width, bytes) ==
    [MkValue("raw", size, <<>>, bytes, <<>>) EXCEPT !.alloc = alloc, !.width = width]

HexDigits == <<"0", "1", "2", "3", "4", "5", "6", "7", "8", "9", "a", "b", "c", "d", "e", "f">>

\* The characters operator>> reads as digits once std::hex is set
IsHex(c) == IsDigit(c) \/ c \in {"a", "b", "c", "d", "e", "f", "E"}

HexValue(c) ==
    IF IsDigit(c) THEN DigitValue(c)
    ELSE CASE c = "a" -> 10 [] c = "b" -> 11 [] c = "c" -> 12 [] c = "d" -> 13
           [] c \in {"e", "E"} -> 14 [] c = "f" -> 15

\* std::istringstream ss(as_hex.substr(i, 2)); ss >> std::hex >> value;
\* value & 0xFF, for two characters that are digits or letters: the digits
\* read up to the first character that is none, 0 when the first is none
ReadHex(text, i) ==
    IF ~IsHex(text[i]) THEN 0
    ELSE IF ~IsHex(text[i + 1]) THEN HexValue(text[i])
    ELSE 16 * HexValue(text[i]) + HexValue(text[i + 1])

\* The loops over byte: the n bytes read from the character i on
RECURSIVE HexBytes(_, _, _)
HexBytes(text, i, n) ==
    IF n = 0 THEN <<>> ELSE <<ReadHex(text, i)>> \o HexBytes(text, i + 2, n - 1)

\* ss << std::setw(2) << std::setfill('0') << std::hex << int(data[byte]),
\* from the byte i on
RECURSIVE ToHex(_, _)
ToHex(bytes, i) ==
    IF i > Len(bytes) THEN <<>>
    ELSE <<HexDigits[(bytes[i] \div 16) + 1], HexDigits[(bytes[i] % 16) + 1]>> \o ToHex(bytes, i + 1)

\* The width of a float's significand, in bits (FLT_MANT_DIG)
MantissaBits == 24

RECURSIVE Pow2(_)
Pow2(n) == IF n <= 0 THEN 1 ELSE 2 * Pow2(n - 1)

\* The power of two that scales n >= 0 down to MantissaBits bits
RECURSIVE Ulp(_)
Ulp(n) == IF n < Pow2(MantissaBits) THEN 1 ELSE 2 * Ulp(n \div 2)

\* n >= 0 rounded to a multiple of u, the tie to the even multiple
RoundTo(n, u) ==
    IF 2 * (n % u) > u \/ (2 * (n % u) = u /\ (n \div u) % 2 = 1)
    THEN (n \div u + 1) * u
    ELSE (n \div u) * u

\* The conversion int32_t -> float of NumberNode(m_ref): the nearest float
IntToFloat(n) ==
    IF n < 0 THEN Normalise(-RoundTo(-n, Ulp(-n)), 0) ELSE Normalise(RoundTo(n, Ulp(n)), 0)

\* The conversion float -> int32_t of m_ref = value(): the fraction is dropped
FloatToInt(v) ==
    IF v.x >= 0 THEN v.m * Pow10(v.x)
    ELSE IF v.m < 0 THEN -((-v.m) \div Pow10(-v.x))
    ELSE v.m \div Pow10(-v.x)

(***************************************************************************)
(* Elements.  The free store is a function from addresses to cells; a cell *)
(* holds an Element or is free.  Every cell is a record of one shape:      *)
(*   type      "free", or what Element::type() returns                     *)
(*   refs      Element::refs                                               *)
(*   var       the caller's variable m_ref refers to (terminals)           *)
(*   is_const  m_is_const (terminals)                                      *)
(*   elements  m_elements: an Object's std::map in key order, an Array's   *)
(*             std::vector (its entries have the empty key)                *)
(*   order     the names in the order they were bound (kept by the model   *)
(*             only; the program holds no such record)                     *)
(***************************************************************************)
\* The null Element*
NoElement == 0

\* The most Elements the free store holds at a time.
MaxElements == 3

MkCell(type, refs, var, is_const) ==
    [type |-> type, refs |-> refs, var |-> var, is_const |-> is_const,
     elements |-> <<>>, order |-> <<>>]

FreeCell == MkCell("free", 0, 0, FALSE)

\* Element() : refs(1)
NewCell(type, var, is_const) == MkCell(type, 1, var, is_const)

\* Which Element class Terminal<T> derives from, for a variable of type T
TerminalType(value) ==
    CASE value.type = "vector" -> "Vector"
      [] value.type = "map" -> "Map"
      [] value.type = "pod" -> "POD"
      [] value.type = "raw" -> "Raw"
      [] OTHER -> "Scalar"

HasFree(h) == \E e \in DOMAIN h : h[e].type = "free"

\* The address operator new returns: the lowest free one
Alloc(h) == CHOOSE e \in DOMAIN h : h[e].type = "free" /\ \A f \in DOMAIN h : f < e => h[f].type # "free"

RECURSIVE Release(_, _)
RECURSIVE ReleaseAll(_, _, _)

\* The loop of ~Object and of ~Array over m_elements
ReleaseAll(h, elements, i) ==
    IF i > Len(elements) THEN h
    ELSE ReleaseAll(Release(h, elements[i].value), elements, i + 1)

\* delete elem: the destructor runs, then the cell is free
Delete(h, e) == [ReleaseAll(h, h[e].elements, 1) EXCEPT ![e] = FreeCell]

\* if (!--elem->refs) delete elem;
Release(h, e) ==
    IF h[e].refs - 1 = 0
    THEN Delete([h EXCEPT ![e].refs = @ - 1], e)
    ELSE [h EXCEPT ![e].refs = @ - 1]

(***************************************************************************)
(* Template.  A world is the record [tpls, heap] the Template operations   *)
(* act on; tpls[t] is [live, m_impl].  A thrown exception is an outcome    *)
(* [ok, kind, what, key].                                                  *)
(***************************************************************************)
\* The most Template objects the caller holds.
MaxTemplates == 2

\* The Template of a full-expression's conversion, as in tpl.bind("a", a)
Temporary == 0

Handles == 1..MaxTemplates

Dead == [live |-> FALSE, m_impl |-> NoElement]

\* Template() : m_impl(nullptr)
Empty == [live |-> TRUE, m_impl |-> NoElement]

Impl(w, t) == w.tpls[t].m_impl

Returned == [ok |-> TRUE, kind |-> "none", what |-> "", key |-> <<>>]

Raised(kind, what, key) == [ok |-> FALSE, kind |-> kind, what |-> what, key |-> key]

\* A null pointer is dereferenced: on every build the process takes a fault
Fault == Raised("fault", "", <<>>)

AlreadyBound == Raised("runtime_error", "json::Template::bind: template is already bound", <<>>)

\* m_impl = new Terminal<T>(ref)
Attach(w, t, cell) ==
    [tpls |-> [w.tpls EXCEPT ![t].m_impl = Alloc(w.heap)],
     heap |-> [w.heap EXCEPT ![Alloc(w.heap)] = cell]]

\* A world as an operation leaves it when it returns, or when it throws out
Done(w) == [tpls |-> w.tpls, heap |-> w.heap, out |-> Returned]

Throws(w, out) == [tpls |-> w.tpls, heap |-> w.heap, out |-> out]

\* Template::bind(T& ref) and bind(T const& const_ref): cell is the Terminal
T_bind(w, t, cell) ==
    IF Impl(w, t) # NoElement THEN Throws(w, AlreadyBound)
    ELSE Done(Attach(w, t, cell))

\* Object::bind as it would be without its test of the name
Object_bind_unchecked(w, e, name, elem) ==
    IF elem = NoElement THEN Throws(w, Fault)
    ELSE Done([w EXCEPT !.heap[elem].refs = @ + 1,
                        !.heap[e].elements = MapPut(@, name, elem),
                        !.heap[e].order = Append(@, name)])

\* Object::bind(name, elem) on the Object at e
Object_bind(w, e, name, elem) ==
    IF MapHas(w.heap[e].elements, name)
    THEN Throws(w, Raised("runtime_error", "json::Object::bind: element is already bound", name))
    ELSE IF elem = NoElement THEN Throws(w, Fault)
    ELSE Done([w EXCEPT !.heap[elem].refs = @ + 1,
                        !.heap[e].elements = MapPut(@, name, elem),
                        !.heap[e].order = Append(@, name)])

\* Array::bind(elem) on the Array at e
Array_bind(w, e, elem) ==
    IF elem = NoElement THEN Throws(w, Fault)
    ELSE Done([w EXCEPT !.heap[elem].refs = @ + 1,
                        !.heap[e].elements = Append(@, [key |-> <<>>, value |-> elem]),
                        !.heap[e].order = Append(@, <<>>)])

\* if (!m_impl) m_impl = new Object(); and the same for Array
Ensure(w, t, type) ==
    IF Impl(w, t) = NoElement THEN Attach(w, t, NewCell(type, 0, FALSE)) ELSE w

\* ((Object*) m_impl)->bind(name, tpl.m_impl), m_impl being set
BindInto(w, t, name, s) == Object_bind(w, Impl(w, t), name, Impl(w, s))

\* ((Array*) m_impl)->bind(tpl.m_impl), m_impl being set
PushInto(w, t, s) == Array_bind(w, Impl(w, t), Impl(w, s))

\* bind(name, tpl) as it would be without its test of the Element's type
T_bind_named_unchecked(w, t, name, s) == BindInto(Ensure(w, t, "Object"), t, name, s)

\* Template::bind(std::string const& name, Template const& tpl)
T_bind_named(w, t, name, s) ==
    IF Impl(w, t) # NoElement /\ w.heap[Impl(w, t)].type # "Object"
    THEN Throws(w, AlreadyBound)
    ELSE BindInto(Ensure(w, t, "Object"), t, name, s)

\* Template::bind_array(Template const& tpl)
T_bind_array(w, t, s) ==
    IF Impl(w, t) # NoElement /\ w.heap[Impl(w, t)].type # "Array"
    THEN Throws(w, Raised("runtime_error", "json::Template::bind_array: template is already bound", <<>>))
    ELSE PushInto(Ensure(w, t, "Array"), t, s)

\* if (m_impl) m_impl->refs++, for the m_impl just copied from cpy
Shared(h, e) == IF e # NoElement THEN [h EXCEPT ![e].refs = @ + 1] ELSE h

\* Template::operator=(Template const& cpy)
T_assign(w, t, s) ==
    Done([tpls |-> [w.tpls EXCEPT ![t].m_impl = Impl(w, s)], heap |-> Shared(w.heap, Impl(w, s))])

\* Template(Template const& cpy) : m_impl(nullptr) { operator=(cpy); }
T_copy(w, t, s) == T_assign([w EXCEPT !.tpls[t] = Empty], t, s)

\* Template::reset
T_reset(w, t) ==
    Done([tpls |-> [w.tpls EXCEPT ![t].m_impl = NoElement],
          heap |-> IF Impl(w, t) # NoElement THEN Release(w.heap, Impl(w, t)) ELSE w.heap])

\* Template::~Template
T_destroy(w, t) == [T_reset(w, t) EXCEPT !.tpls[t] = Dead]

\* The temporary Template of a full-expression is destroyed at its end,
\* whether the call returned or threw.
Discard(r) == Throws(T_destroy(r, Temporary), r.out)

\* tpl.bind(name, x): Template(x) converts x, bind(name, tpl) binds it
T_bind_var(w, t, name, cell) ==
    Discard(T_bind_named(T_bind([w EXCEPT !.tpls[Temporary] = Empty], Temporary, cell),
                         t, name, Temporary))

\* tpl.bind_array(x): Template(x) converts x, bind_array(tpl) binds it
T_bind_item(w, t, cell) ==
    Discard(T_bind_array(T_bind([w EXCEPT !.tpls[Temporary] = Empty], Temporary, cell),
                         t, Temporary))

(***************************************************************************)
(* Element::extract and Element::synthetize.  An extraction ends in the    *)
(* record [store, out]: the caller's variables after it and how it ended.  *)
(***************************************************************************)
NodeError(what, key) == Raised("NodeError", what, key)

Extracted(st) == [store |-> st, out |-> Returned]

Failed(st, out) == [store |-> st, out |-> out]

\* The template parameter tp of the Scalar a variable of this type binds to
NodeTypeOf(value) == IF value.type = "string" THEN "String" ELSE "Number"

\* m_ref = node->downcast<N>()->value()
Converted(value, node) ==
    IF value.type = "string" THEN StringValue(node.string)
    ELSE IntValue(FloatToInt(node.number))

\* Scalar::extract
Scalar_extract(cell, node, st) ==
    IF cell.is_const
    THEN Failed(st, NodeError("json::Scalar[const]::extract extracting to const binding", <<>>))
    ELSE IF node = NullPtr THEN Failed(st, Fault)
    ELSE IF node.type # NodeTypeOf(st[cell.var])
    THEN Failed(st, NodeError("json::Scalar::extract: expecting a node of type", <<>>))
    ELSE Extracted([st EXCEPT ![cell.var] = Converted(@, node)])

\* What Terminal<int32_t> term(value); term.extract(node) ends in
ItemOutcome(node) ==
    IF node = NullPtr THEN Fault
    ELSE IF node.type # "Number"
    THEN NodeError("json::Scalar::extract: expecting a node of type", <<>>)
    ELSE Returned

\* The loop of Vector::extract from item i on; list is m_ref so far
RECURSIVE VectorLoop(_, _, _, _, _)
VectorLoop(st, var, impl, i, list) ==
    IF i > Len(impl) THEN Extracted([st EXCEPT ![var] = VectorValue(list)])
    ELSE IF ~ItemOutcome(impl[i]).ok
    THEN Failed([st EXCEPT ![var] = VectorValue(list)], ItemOutcome(impl[i]))
    ELSE VectorLoop(st, var, impl, i + 1, Append(list, FloatToInt(impl[i].number)))

\* Vector::extract
Vector_extract(cell, node, st) ==
    IF cell.is_const
    THEN Failed(st, NodeError("json::Vector[const]::extract: extracting to const binding", <<>>))
    ELSE IF node = NullPtr THEN Failed(st, Fault)
    ELSE IF node.type # "Array"
    THEN Failed(st, NodeError("json::Vector::extract: expecting an array node", <<>>))
    ELSE VectorLoop(st, cell.var, node.impl, 1, <<>>)

\* The loop of Map::extract from entry i on; dict is m_ref so far
RECURSIVE MapLoop(_, _, _, _, _)
MapLoop(st, var, impl, i, dict) ==
    IF i > Len(impl) THEN Extracted([st EXCEPT ![var] = MapValue(dict)])
    ELSE IF ~ItemOutcome(impl[i].value).ok
    THEN Failed([st EXCEPT ![var] = MapValue(dict)], ItemOutcome(impl[i].value))
    ELSE MapLoop(st, var, impl, i + 1,
                 MapPut(dict, impl[i].key, FloatToInt(impl[i].value.number)))

\* Map::extract
Map_extract(cell, node, st) ==
    IF cell.is_const
    THEN Failed(st, NodeError("json::Map[const]::extract: extracting to const binding", <<>>))
    ELSE IF node = NullPtr THEN Failed(st, Fault)
    ELSE IF node.type # "Object"
    THEN Failed(st, NodeError("json::Map::extract: expecting an object node", <<>>))
    ELSE MapLoop(st, cell.var, node.impl, 1, <<>>)

\* POD::extract as it would be without its test of the size
POD_extract_unsized(cell, node, st) ==
    IF cell.is_const
    THEN Failed(st, NodeError("json::POD[const]::extract: extracting to const binding", <<>>))
    ELSE IF node = NullPtr THEN Failed(st, Fault)
    ELSE IF node.type # "String"
    THEN Failed(st, NodeError("json::POD::extract: expecting a string node", <<>>))
    ELSE Extracted([st EXCEPT ![cell.var].list = HexBytes(node.string, 1, Len(node.string) \div 2)])

\* POD::extract
POD_extract(cell, node, st) ==
    IF cell.is_const
    THEN Failed(st, NodeError("json::POD[const]::extract: extracting to const binding", <<>>))
    ELSE IF node = NullPtr THEN Failed(st, Fault)
    ELSE IF node.type # "String"
    THEN Failed(st, NodeError("json::POD::extract: expecting a string node", <<>>))
    ELSE IF Len(node.string) % 2 # 0 \/ Len(node.string) \div 2 # Len(st[cell.var].list)
    THEN Failed(st, NodeError("json::POD::extract: bad buffer size", <<>>))
    ELSE Extracted([st EXCEPT ![cell.var].list = HexBytes(node.string, 1, Len(node.string) \div 2)])

\* The variables after Raw::extract has read a string of len characters:
\* *m_size = as_hex.size() / (2 * sizeof(T)); *m_ptr = new T[*m_size]; and
\* the loops that fill it
RawFilled(value, string) ==
    [value EXCEPT !.int = Len(string) \div (2 * value.width),
                  !.alloc = TRUE,
                  !.list = HexBytes(string, 1, (Len(string) \div (2 * value.width)) * value.width)]

\* Raw::extract as it would be without its test of *m_ptr
Raw_extract_over(cell, node, st) ==
    IF cell.is_const
    THEN Failed(st, NodeError("json::Raw[const]::extract: extracting to const binding", <<>>))
    ELSE IF node = NullPtr THEN Failed(st, Fault)
    ELSE IF node.type = "Null"
    THEN Extracted([st EXCEPT ![cell.var].int = 0, ![cell.var].alloc = FALSE, ![cell.var].list = <<>>])
    ELSE IF node.type # "String"
    THEN Failed(st, NodeError("json::Raw::extract: expecting a string node", <<>>))
    ELSE IF Len(node.string) % 2 # 0
    THEN Failed(st, NodeError("json::Raw::extract: bad buffer size", <<>>))
    ELSE Extracted([st EXCEPT ![cell.var] = RawFilled(@, node.string)])

\* Raw::extract as it would be without its test of m_is_const
Raw_extract_writable(cell, node, st) ==
    IF st[cell.var].alloc
    THEN Failed(st, NodeError("json::Raw::extract: target memory is already allocated", <<>>))
    ELSE IF node = NullPtr THEN Failed(st, Fault)
    ELSE IF node.type = "Null"
    THEN Extracted([st EXCEPT ![cell.var].int = 0, ![cell.var].alloc = FALSE, ![cell.var].list = <<>>])
    ELSE IF node.type # "String"
    THEN Failed(st, NodeError("json::Raw::extract: expecting a string node", <<>>))
    ELSE IF Len(node.string) % 2 # 0
    THEN Failed(st, NodeError("json::Raw::extract: bad buffer size", <<>>))
    ELSE Extracted([st EXCEPT ![cell.var] = RawFilled(@, node.string)])

\* Raw::extract
Raw_extract(cell, node, st) ==
    IF cell.is_const
    THEN Failed(st, NodeError("json::Raw[const]::extract: extracting to const binding", <<>>))
    ELSE IF st[cell.var].alloc
    THEN Failed(st, NodeError("json::Raw::extract: target memory is already allocated", <<>>))
    ELSE IF node = NullPtr THEN Failed(st, Fault)
    ELSE IF node.type = "Null"
    THEN Extracted([st EXCEPT ![cell.var].int = 0, ![cell.var].alloc = FALSE, ![cell.var].list = <<>>])
    ELSE IF node.type # "String"
    THEN Failed(st, NodeError("json::Raw::extract: expecting a string node", <<>>))
    ELSE IF Len(node.string) % 2 # 0
    THEN Failed(st, NodeError("json::Raw::extract: bad buffer size", <<>>))
    ELSE Extracted([st EXCEPT ![cell.var] = RawFilled(@, node.string)])

RECURSIVE E_extract(_, _, _, _)
RECURSIVE ObjectLoop(_, _, _, _, _)
RECURSIVE ArrayLoop(_, _, _, _, _)

\* One turn of a composite's loop, r being how the child's extract ended
ObjectTurn(h, elements, node, i, r) ==
    IF ~r.out.ok THEN r ELSE ObjectLoop(h, elements, node, i + 1, r.store)

ArrayTurn(h, elements, node, i, r) ==
    IF ~r.out.ok THEN r ELSE ArrayLoop(h, elements, node, i + 1, r.store)

\* The loop of Object::extract as it would be if it skipped the names the
\* source does not hold
ObjectLoop_lenient(h, elements, node, i, st) ==
    IF i > Len(elements) THEN Extracted(st)
    ELSE IF ~exists(node.impl, elements[i].key)
    THEN ObjectLoop(h, elements, node, i + 1, st)
    ELSE ObjectTurn(h, elements, node, i,
                    E_extract(h, elements[i].value, MapAt(node.impl, elements[i].key), st))

\* The loop of Object::extract from the i-th bound child on
ObjectLoop(h, elements, node, i, st) ==
    IF i > Len(elements) THEN Extracted(st)
    ELSE IF ~exists(node.impl, elements[i].key)
    THEN Failed(st, NodeError("json::Object::extract: missing element", elements[i].key))
    ELSE ObjectTurn(h, elements, node, i,
                    E_extract(h, elements[i].value, MapAt(node.impl, elements[i].key), st))

\* Object::extract
Object_extract(h, cell, node, st) ==
    IF node = NullPtr THEN Failed(st, Fault)
    ELSE IF node.type # "Object"
    THEN Failed(st, NodeError("json::Object::extract: type mismatch", <<>>))
    ELSE ObjectLoop(h, cell.elements, node, 1, st)

\* The loop of Array::extract as it would be if it stopped at the end of a
\* short source
ArrayLoop_lenient(h, elements, node, i, st) ==
    IF i > Len(elements) \/ i > Len(node.impl) THEN Extracted(st)
    ELSE ArrayTurn(h, elements, node, i, E_extract(h, elements[i].value, node.impl[i], st))

\* The loop of Array::extract from the i-th bound child on
ArrayLoop(h, elements, node, i, st) ==
    IF i > Len(elements) THEN Extracted(st)
    ELSE IF i > Len(node.impl)
    THEN Failed(st, NodeError("json::Array::extract: size mismatch in array", <<>>))
    ELSE ArrayTurn(h, elements, node, i, E_extract(h, elements[i].value, node.impl[i], st))

\* Array::extract
Array_extract(h, cell, node, st) ==
    IF node = NullPtr THEN Failed(st, Fault)
    ELSE IF node.type # "Array"
    THEN Failed(st, NodeError("json::Array::extract: type mismatch", <<>>))
    ELSE ArrayLoop(h, cell.elements, node, 1, st)

\* Element::extract, by the class of the Element at e
E_extract(h, e, node, st) ==
    CASE h[e].type = "Scalar" -> Scalar_extract(h[e], node, st)
      [] h[e].type = "Vector" -> Vector_extract(h[e], node, st)
      [] h[e].type = "Map" -> Map_extract(h[e], node, st)
      [] h[e].type = "POD" -> POD_extract(h[e], node, st)
      [] h[e].type = "Raw" -> Raw_extract(h[e], node, st)
      [] h[e].type = "Object" -> Object_extract(h, h[e], node, st)
      [] h[e].type = "Array" -> Array_extract(h, h[e], node, st)

\* Template::extract
T_extract(w, t, node, st) ==
    IF Impl(w, t) = NoElement
    THEN Failed(st, NodeError("json::Template::extract: template is not bound !", <<>>))
    ELSE E_extract(w.heap, Impl(w, t), node, st)

\* The loop of Vector::synthetize from item i on
RECURSIVE VectorItems(_, _)
VectorItems(list, i) ==
    IF i > Len(list) THEN <<>>
    ELSE <<NumberNode(IntToFloat(list[i]))>> \o VectorItems(list, i + 1)

\* The loop of Map::synthetize from entry i on; impl is obj->impl() so far
RECURSIVE MapEntries(_, _, _)
MapEntries(dict, i, impl) ==
    IF i > Len(dict) THEN impl
    ELSE MapEntries(dict, i + 1, MapPut(impl, dict[i].key, NumberNode(IntToFloat(dict[i].value))))

\* Raw::synthetize as it would be without its test of the size and the pointer
Raw_synthetize_always(value) == StringNode(ToHex(value.list, 1))

\* Raw::synthetize
Raw_synthetize(value) ==
    IF value.int = 0 \/ ~value.alloc THEN NullNode ELSE StringNode(ToHex(value.list, 1))

\* Scalar::synthetize, Vector::synthetize and Map::synthetize: new N(m_ref);
\* POD::synthetize and Raw::synthetize
Terminal_synthetize(value) ==
    CASE value.type = "int" -> NumberNode(IntToFloat(value.int))
      [] value.type = "string" -> StringNode(value.text)
      [] value.type = "vector" -> ArrayNode(VectorItems(value.list, 1))
      [] value.type = "map" -> ObjectNode(MapEntries(value.dict, 1, <<>>))
      [] value.type = "pod" -> StringNode(ToHex(value.list, 1))
      [] value.type = "raw" -> Raw_synthetize(value)

RECURSIVE E_synthetize(_, _, _)

\* The loop of Object::synthetize from the i-th bound child on
RECURSIVE ObjectChildren(_, _, _, _, _)
ObjectChildren(h, elements, i, st, impl) ==
    IF i > Len(elements) THEN impl
    ELSE ObjectChildren(h, elements, i + 1, st,
                        MapPut(impl, elements[i].key, E_synthetize(h, elements[i].value, st)))

\* The loop of Array::synthetize from the i-th bound child on
RECURSIVE ArrayChildren(_, _, _, _)
ArrayChildren(h, elements, i, st) ==
    IF i > Len(elements) THEN <<>>
    ELSE <<E_synthetize(h, elements[i].value, st)>> \o ArrayChildren(h, elements, i + 1, st)

\* Element::synthetize, by the class of the Element at e
E_synthetize(h, e, st) ==
    CASE h[e].type = "Object" -> ObjectNode(ObjectChildren(h, h[e].elements, 1, st, <<>>))
      [] h[e].type = "Array" -> ArrayNode(ArrayChildren(h, h[e].elements, 1, st))
      [] OTHER -> Terminal_synthetize(st[h[e].var])

\* Element::isConst, as each class overrides it: Scalar, Object and Array
\* return false, the other terminals return m_is_const
isConst(cell) ==
    IF cell.type \in {"POD", "Raw", "Vector", "Map"} THEN cell.is_const ELSE FALSE

\* The Elements bound into the Element at e
Children(h, e) == {h[e].elements[i].value : i \in 1..Len(h[e].elements)}

\* The Elements reached from the set S in at most n steps
RECURSIVE Reach(_, _, _)
Reach(h, S, n) ==
    IF n = 0 THEN S ELSE Reach(h, S \cup UNION {Children(h, e) : e \in S}, n - 1)

\* The Elements bound, at any depth, into the Element at e
Below(h, e) == Reach(h, Children(h, e), Cardinality(DOMAIN h))

\* Object::synthetize and Array::synthetize call themselves without end on
\* an Element that is bound, at some depth, into itself.
Endless(h, e) == \E x \in {e} \cup Below(h, e) : x \in Below(h, x)

\* Template::synthetize: the node, or the exception
T_synthetize(w, t, st) ==
    IF Impl(w, t) = NoElement
    THEN [node |-> NullPtr,
          out |-> Raised("runtime_error", "json::Template::synthetize: template is not bound !", <<>>)]
    ELSE IF Endless(w.heap, Impl(w, t)) THEN [node |-> NullPtr, out |-> Fault]
    ELSE [node |-> E_synthetize(w.heap, Impl(w, t), st), out |-> Returned]

(***************************************************************************)
(* The state of the binding layer, and the record of the last call:        *)
(* call is [n, op, t], the number of calls so far, the last call and its   *)
(* Template, with the outcome's fields.                                    *)
(***************************************************************************)
NoTemplates == [t \in {Temporary} \cup Handles |-> Dead]

FreeStore(n) == [e \in 1..n |-> FreeCell]

\* The most calls the caller makes.
MaxCalls == 4

NoCall ==
    [n |-> 0, op |-> "none", t |-> 0, ok |-> TRUE, kind |-> "none", what |-> "", key |-> <<>>]

\* The record of one more call
Called(op, t, out) ==
    [n |-> call.n + 1, op |-> op, t |-> t,
     ok |-> out.ok, kind |-> out.kind, what |-> out.what, key |-> out.key]

\* The process runs until a null pointer is dereferenced.
Running == call.kind # "fault" /\ call.n < MaxCalls

World == [tpls |-> tpls, heap |-> heap]

\* The Template and the Elements are as the operation left them.
Commit(r) == tpls' = r.tpls /\ heap' = r.heap

\* A state with no Template, for the sessions that bind nothing
InitLib ==
    /\ tpls = NoTemplates
    /\ heap = FreeStore(MaxElements)
    /\ store = <<IntValue(0)>>
    /\ call = NoCall
    /\ lexer = NoLexer
    /\ shown = NoToken

(***************************************************************************)
(* The parse session: a caller writes a document, piece by piece, and      *)
(* hands it to parse.                                                      *)
(***************************************************************************)
NotParsed == Outcome(Throw("not_called", "", BadToken))

\* The longest document written, in characters.
MaxInput == 9

\* The pieces a document is written from.
Pieces ==
    { <<"[">>, <<"]">>, <<"{">>, <<"}">>, <<",">>, <<":">>, <<"1">>,
      <<"\"", "a", "\"">>, <<"\"", "b", "\"">> }

\* A document the parser has not yet failed on at one of its own tokens:
\* parse ran out of input, so that more text can still change the outcome.
RanOut(r) == ~r.ok /\ r.err.kind = "TokenError" /\ r.err.token.type = "Eof"

Unfinished(in) == RanOut(parse(in))

\* What a document counts for against the bound: its characters, the quotes
\* around a string left out, so that a string counts as much as a bracket.
Cost(in) == Cardinality({i \in 1..Len(in) : in[i] # "\""})

InitParse ==
    /\ input = <<>>
    /\ parsed = NotParsed
    /\ tree = NullPtr
    /\ InitLib

Write(pieces, max) ==
    /\ parsed = NotParsed
    /\ Cost(input) < max
    /\ Unfinished(input)
    /\ \E piece \in pieces : input' = input \o piece
    /\ UNCHANGED <<lexer, shown, parsed, tree, tpls, heap, store, call>>

Parse ==
    /\ parsed = NotParsed
    /\ parsed' = parse(input)
    /\ UNCHANGED <<lexer, shown, input, tree, tpls, heap, store, call>>

NextParse ==
    \/ Write(Pieces, MaxInput)
    \/ Parse

SpecParse == InitParse /\ [][NextParse]_vars

(***************************************************************************)
(* The include session: the document written holds include directives, of  *)
(* the file that exists, of the file that includes itself and of a file    *)
(* that does not exist.                                                    *)
(***************************************************************************)
MissingFile == <<"g">>

Directive(path) == <<"@", "\"">> \o path \o <<"\"">>

IncludePieces ==
    { <<"[">>, <<"]">>, <<",">>, <<"1">>,
      Directive(IncludedFile), Directive(SelfIncludingFile), Directive(MissingFile) }

NextInclude ==
    \/ Write(IncludePieces, MaxInput)
    \/ Parse

SpecInclude == InitParse /\ [][NextInclude]_vars

(***************************************************************************)
(* The lexer session: a caller writes a text, character by character,      *)
(* constructs a Lexer over it and calls seek() and get() on it.            *)
(***************************************************************************)
\* The longest text written, in characters.
MaxText == 5

\* The characters a text is written from.
TextChars == {"\"", "\\", "x", "1", ",", " "}

WriteText ==
    /\ lexer = NoLexer
    /\ Len(input) < MaxText
    /\ \E c \in TextChars : input' = Append(input, c)
    /\ UNCHANGED <<lexer, shown, parsed, tree, tpls, heap, store, call>>

\* Lexer lexer(in);
Open ==
    /\ lexer = NoLexer
    /\ lexer' = NewLexer(input)
    /\ UNCHANGED <<shown, input, parsed, tree, tpls, heap, store, call>>

\* lexer.seek()
Seek ==
    /\ lexer # NoLexer
    /\ shown' = [op |-> "seek", token |-> seek(lexer)]
    /\ UNCHANGED <<lexer, input, parsed, tree, tpls, heap, store, call>>

\* lexer.get()
Get ==
    /\ lexer # NoLexer
    /\ shown' = [op |-> "get", token |-> get_tok(lexer)]
    /\ lexer' = get(lexer)
    /\ UNCHANGED <<input, parsed, tree, tpls, heap, store, call>>

NextLex ==
    \/ WriteText
    \/ Open
    \/ Seek
    \/ Get

SpecLex == InitParse /\ [][NextLex]_vars

(***************************************************************************)
(* The number session: the lexer session over the characters that the      *)
(* number rule of M_getToken tells apart.                                  *)
(***************************************************************************)
NumberChars == {"-", ".", "1", "e", ","}

WriteNumber ==
    /\ lexer = NoLexer
    /\ Len(input) < MaxText
    /\ \E c \in NumberChars : input' = Append(input, c)
    /\ UNCHANGED <<lexer, shown, parsed, tree, tpls, heap, store, call>>

NextNum ==
    \/ WriteNumber
    \/ Open
    \/ Seek
    \/ Get

SpecNum == InitParse /\ [][NextNum]_vars

(***************************************************************************)
(* The trailing-text session: a caller writes a document and, once parse   *)
(* accepts it, goes on writing after it, and hands the text to parse.      *)
(***************************************************************************)
\* The longest document written, and the longest text written after it.
MaxDoc == 4

MaxTrail == 2

\* The pieces of the text written after the document
TrailPieces == { <<"]">>, <<"}">>, <<"[">>, <<",">>, <<"1">>, <<"x">> }

\* The lengths of the prefixes of a text that parse accepts
Accepted(in) == {k \in 1..Len(in) : parse(SubSeq(in, 1, k)).ok}

HasDoc(in) == Accepted(in) # {}

\* The shortest prefix of a text that parse accepts: the top-level value alone
Doc(in) == SubSeq(in, 1, CHOOSE k \in Accepted(in) : \A j \in Accepted(in) : k <= j)

WriteAfter ==
    /\ parsed = NotParsed
    /\ HasDoc(input)
    /\ Len(input) < Len(Doc(input)) + MaxTrail
    /\ \E piece \in TrailPieces : input' = input \o piece
    /\ UNCHANGED <<lexer, shown, parsed, tree, tpls, heap, store, call>>

NextTrail ==
    \/ Write(Pieces, MaxDoc)
    \/ WriteAfter
    \/ Parse

SpecTrail == InitParse /\ [][NextTrail]_vars

(***************************************************************************)
(* The round trip: a caller builds a tree through impl(), serializes it    *)
(* and parses the text back.                                               *)
(***************************************************************************)
\* The most nodes a hand-built tree has.
MaxNodes == 4

NumberValues == {Dec(-12), Dec(1000000)}

StringValues == {<<"a", "\n", "\"">>, <<"\t">>, <<"\\">>}

KeyValues == {<<"a">>, <<"\"">>}

Leaves ==
    {NumberNode(v) : v \in NumberValues} \cup {StringNode(v) : v \in StringValues}
        \cup {BooleanNode(TRUE), NullNode}

\* The number of nodes of a tree
RECURSIVE Size(_)
RECURSIVE SizeOver(_, _)
SizeOver(impl, i) ==
    IF i > Len(impl) THEN 0
    ELSE Size(IF "key" \in DOMAIN impl[i] THEN impl[i].value ELSE impl[i]) + SizeOver(impl, i + 1)
Size(node) == 1 + SizeOver(node.impl, 1)

InitRound ==
    /\ input = <<>>
    /\ parsed = NotParsed
    /\ tree \in {ArrayNode(<<>>), ObjectNode(<<>>)}
    /\ InitLib

\* node->impl().push_back(leaf)
PushBack ==
    /\ input = <<>>
    /\ tree.type = "Array"
    /\ Size(tree) < MaxNodes
    /\ \E leaf \in Leaves : tree' = ArrayNode(Append(tree.impl, leaf))
    /\ UNCHANGED <<lexer, shown, input, parsed, tpls, heap, store, call>>

\* node->impl()[key] = leaf
Insert ==
    /\ input = <<>>
    /\ tree.type = "Object"
    /\ Size(tree) < MaxNodes
    /\ \E key \in KeyValues, leaf \in Leaves : tree' = ObjectNode(MapPut(tree.impl, key, leaf))
    /\ UNCHANGED <<lexer, shown, input, parsed, tpls, heap, store, call>>

\* The tree becomes the first element of a new ArrayNode.
NestInArray ==
    /\ input = <<>>
    /\ Size(tree) < MaxNodes
    /\ tree' = ArrayNode(<<tree>>)
    /\ UNCHANGED <<lexer, shown, input, parsed, tpls, heap, store, call>>

\* The tree becomes the first entry of a new ObjectNode.
NestInObject ==
    /\ input = <<>>
    /\ Size(tree) < MaxNodes
    /\ \E key \in KeyValues : tree' = ObjectNode(MapPut(<<>>, key, tree))
    /\ UNCHANGED <<lexer, shown, input, parsed, tpls, heap, store, call>>

\* serialize(tree, out, indent), out being read back as the next input
Serialize ==
    /\ input = <<>>
    /\ \E indent \in BOOLEAN : input' = serialize(tree, indent)
    /\ UNCHANGED <<lexer, shown, parsed, tree, tpls, heap, store, call>>

ParseBack ==
    /\ input # <<>>
    /\ Parse

NextRound ==
    \/ PushBack
    \/ Insert
    \/ NestInArray
    \/ NestInObject
    \/ Serialize
    \/ ParseBack

SpecRound == InitRound /\ [][NextRound]_vars

(***************************************************************************)
(* The lookup session: a caller builds an Object node through impl() and   *)
(* looks its entries up with get().                                        *)
(***************************************************************************)
\* The keys looked up: those inserted, and one that never is
LookupKeys == KeyValues \cup {<<"b">>}

InitNode ==
    /\ input = <<>>
    /\ parsed = NotParsed
    /\ tree = ObjectNode(<<>>)
    /\ InitLib

\* node->get(key)
Lookup(key) ==
    /\ tree.type = "Object"
    /\ tree' = ObjectNode(ObjectNode_get(tree.impl, key))
    /\ UNCHANGED <<lexer, shown, input, parsed, tpls, heap, store, call>>

NextNode ==
    \/ Insert
    \/ \E key \in LookupKeys : Lookup(key)

SpecNode == InitNode /\ [][NextNode]_vars

(***************************************************************************)
(* The Template session: a caller constructs, binds, copies, assigns,      *)
(* resets and destroys Templates, and extracts and synthetizes with them.  *)
(***************************************************************************)
\* The names children are bound under
Names == {<<"a">>, <<"b">>}

\* The nodes the caller extracts from
Sources ==
    { NumberNode(Dec(7)),
      ArrayNode(<<NumberNode(Dec(7))>>),
      ObjectNode(<<[key |-> <<"a">>, value |-> NumberNode(Dec(7))]>>) }

InitTpl ==
    /\ input = <<>>
    /\ parsed = NotParsed
    /\ tree = NullPtr
    /\ tpls = [NoTemplates EXCEPT ![1] = Empty, ![2] = Empty]
    /\ heap = FreeStore(MaxElements)
    /\ store = <<IntValue(7)>>
    /\ call = NoCall
    /\ lexer = NoLexer
    /\ shown = NoToken

\* Template tpl; for one that went out of scope
Construct(t) ==
    /\ Running
    /\ ~tpls[t].live
    /\ tpls' = [tpls EXCEPT ![t] = Empty]
    /\ call' = Called("construct", t, Returned)
    /\ UNCHANGED <<lexer, shown, input, parsed, tree, heap, store>>

\* tpl.bind(x), x being the caller's variable 1, through a const reference or not
Bind(t, consts) ==
    /\ Running
    /\ tpls[t].live
    /\ tpls[t].m_impl = NoElement => HasFree(heap)
    /\ \E c \in consts :
          /\ Commit(T_bind(World, t, NewCell("Scalar", 1, c)))
          /\ call' = Called("bind", t, T_bind(World, t, NewCell("Scalar", 1, c)).out)
    /\ UNCHANGED <<lexer, shown, input, parsed, tree, store>>

\* tpl.bind(name, other)
BindNamed(t, s) ==
    /\ Running
    /\ tpls[t].live /\ tpls[s].live
    /\ tpls[t].m_impl = NoElement => HasFree(heap)
    /\ \E name \in Names :
          /\ Commit(T_bind_named(World, t, name, s))
          /\ call' = Called("bind_named", t, T_bind_named(World, t, name, s).out)
    /\ UNCHANGED <<lexer, shown, input, parsed, tree, store>>

\* tpl.bind_array(other)
BindArray(t, s) ==
    /\ Running
    /\ tpls[t].live /\ tpls[s].live
    /\ tpls[t].m_impl = NoElement => HasFree(heap)
    /\ Commit(T_bind_array(World, t, s))
    /\ call' = Called("bind_array", t, T_bind_array(World, t, s).out)
    /\ UNCHANGED <<lexer, shown, input, parsed, tree, store>>

\* tpl = other;
Assign(t, s) ==
    /\ Running
    /\ tpls[t].live /\ tpls[s].live
    /\ Commit(T_assign(World, t, s))
    /\ call' = Called("assign", t, Returned)
    /\ UNCHANGED <<lexer, shown, input, parsed, tree, store>>

\* Template tpl(other);
Copy(t, s) ==
    /\ Running
    /\ ~tpls[t].live /\ tpls[s].live
    /\ Commit(T_copy(World, t, s))
    /\ call' = Called("copy", t, Returned)
    /\ UNCHANGED <<lexer, shown, input, parsed, tree, store>>

\* tpl.reset();
Reset(t) ==
    /\ Running
    /\ tpls[t].live
    /\ Commit(T_reset(World, t))
    /\ call' = Called("reset", t, Returned)
    /\ UNCHANGED <<lexer, shown, input, parsed, tree, store>>

\* tpl goes out of scope
Destroy(t) ==
    /\ Running
    /\ tpls[t].live
    /\ Commit(T_destroy(World, t))
    /\ call' = Called("destroy", t, Returned)
    /\ UNCHANGED <<lexer, shown, input, parsed, tree, store>>

\* tpl.extract(node): the caller's node is kept in tree
Extract(t, nodes) ==
    /\ Running
    /\ tpls[t].live
    /\ \E node \in nodes :
          /\ tree' = node
          /\ store' = T_extract(World, t, node, store).store
          /\ call' = Called("extract", t, T_extract(World, t, node, store).out)
    /\ UNCHANGED <<lexer, shown, input, parsed, tpls, heap>>

\* json::synthetize(tpl, out, indent): out is kept in input, the node in tree
Synthetize(t, indents) ==
    /\ Running
    /\ tpls[t].live
    /\ tree' = T_synthetize(World, t, store).node
    /\ \E indent \in indents :
          input' = IF T_synthetize(World, t, store).out.ok
                   THEN serialize(T_synthetize(World, t, store).node, indent)
                   ELSE <<>>
    /\ call' = Called("synthetize", t, T_synthetize(World, t, store).out)
    /\ UNCHANGED <<lexer, shown, parsed, tpls, heap, store>>

NextTpl ==
    \E t \in Handles :
        \/ Construct(t)
        \/ Bind(t, {FALSE})
        \/ Reset(t)
        \/ Destroy(t)
        \/ Extract(t, Sources)
        \/ Synthetize(t, {FALSE})
        \/ \E s \in Handles :
              \/ BindNamed(t, s)
              \/ BindArray(t, s)
              \/ Assign(t, s)
              \/ Copy(t, s)

SpecTpl == InitTpl /\ [][NextTpl]_vars

(***************************************************************************)
(* The binding session: as in the examples of main.cpp, a caller binds     *)
(* values to the children of Template 1 and synthetizes it, binds          *)
(* variables to the children of Template 2 and extracts into it.  The      *)
(* variables 1 to 3 hold the values, 4 to 6 are the fresh ones.            *)
(***************************************************************************)
\* The integers bound
IntValues == {-12, 1000000}

\* The nodes the caller extracts from
BindSources ==
    { NumberNode(Dec(7)),
      ObjectNode(<<[key |-> <<"a">>, value |-> NumberNode(Dec(7))]>>),
      ObjectNode(<<[key |-> <<"a">>, value |-> NumberNode(Dec(7))],
                   [key |-> <<"c">>, value |-> NumberNode(Dec(8))]>>),
      ObjectNode(<<[key |-> <<"a">>, value |-> NumberNode(Dec(7))],
                   [key |-> <<"b">>, value |-> NumberNode(Dec(8))]>>),
      ObjectNode(<<[key |-> <<"a">>, value |-> NumberNode(Dec(7))],
                   [key |-> <<"b">>, value |-> ArrayNode(<<NumberNode(Dec(8))>>)],
                   [key |-> <<"c">>, value |-> NumberNode(Dec(9))]>>) }

FreeCells(h) == Cardinality({e \in DOMAIN h : h[e].type = "free"})

InitBind ==
    /\ input = <<>>
    /\ parsed = NotParsed
    /\ tree = NullPtr
    /\ tpls = [NoTemplates EXCEPT ![1] = Empty, ![2] = Empty]
    /\ heap = FreeStore(2 * MaxElements)
    /\ \E n \in IntValues :
          store = <<IntValue(n), VectorValue(<<33, 578>>),
                    MapValue(<<[key |-> <<"a">>, value |-> 1]>>),
                    IntValue(0), VectorValue(<<>>), MapValue(<<>>)>>
    /\ call = NoCall
    /\ lexer = NoLexer
    /\ shown = NoToken

\* tpl.bind(name, x), x being one of the caller's variables xs
BindVar(t, xs, consts) ==
    /\ Running
    /\ tpls[t].live
    /\ FreeCells(heap) >= 2
    /\ \E name \in Names, v \in xs, c \in consts :
          /\ Commit(T_bind_var(World, t, name, NewCell(TerminalType(store[v]), v, c)))
          /\ call' = Called("bind_var", t,
                            T_bind_var(World, t, name, NewCell(TerminalType(store[v]), v, c)).out)
    /\ UNCHANGED <<lexer, shown, input, parsed, tree, store>>

\* tpl.extract(node) on what parse returned, unless parse threw
ExtractParsed(w, t, r, st) ==
    IF r.ok THEN T_extract(w, t, r.node, st)
    ELSE Failed(st, Raised(r.err.kind, r.err.what, <<>>))

\* json::extract(tpl, in), in being the stream kept in input
ExtractText(t) ==
    /\ Running
    /\ tpls[t].live
    /\ parsed' = parse(input)
    /\ store' = ExtractParsed(World, t, parse(input), store).store
    /\ call' = Called("extract_text", t, ExtractParsed(World, t, parse(input), store).out)
    /\ UNCHANGED <<lexer, shown, input, tree, tpls, heap>>

NextBind ==
    \/ BindVar(1, 1..3, {TRUE})
    \/ BindVar(2, 4..6, {FALSE})
    \/ \E t \in {1, 2} : Synthetize(t, {FALSE})
    \/ Extract(2, BindSources)
    \/ ExtractText(2)

SpecBind == InitBind /\ [][NextBind]_vars

(***************************************************************************)
(* The array session: a caller binds its variables 4 to 6, one after the   *)
(* other, as the children of an Array, and extracts into it.               *)
(***************************************************************************)
\* The nodes the caller extracts from
ArraySources ==
    { NumberNode(Dec(7)),
      ObjectNode(<<[key |-> <<"a">>, value |-> NumberNode(Dec(7))]>>),
      ArrayNode(<<>>),
      ArrayNode(<<NumberNode(Dec(7))>>),
      ArrayNode(<<ArrayNode(<<NumberNode(Dec(8))>>), NumberNode(Dec(7))>>),
      ArrayNode(<<NumberNode(Dec(7)), ArrayNode(<<NumberNode(Dec(8))>>)>>),
      ArrayNode(<<NumberNode(Dec(7)), ArrayNode(<<NumberNode(Dec(8))>>), NumberNode(Dec(9))>>) }

\* tpl.bind_array(x), x being one of the caller's variables xs
BindItem(t, xs, consts) ==
    /\ Running
    /\ tpls[t].live
    /\ FreeCells(heap) >= 2
    /\ \E v \in xs, c \in consts :
          /\ Commit(T_bind_item(World, t, NewCell(TerminalType(store[v]), v, c)))
          /\ call' = Called("bind_item", t,
                            T_bind_item(World, t, NewCell(TerminalType(store[v]), v, c)).out)
    /\ UNCHANGED <<lexer, shown, input, parsed, tree, store>>

NextArr ==
    \/ BindItem(2, 4..6, {FALSE})
    \/ Extract(2, ArraySources)
    \/ Synthetize(2, {FALSE})

SpecArr == InitBind /\ [][NextArr]_vars

(***************************************************************************)
(* The byte session: a caller binds one Template to one of its variables,  *)
(* by a reference or by a const one, extracts into it and synthetizes it.  *)
(* The variables are an int32_t, a vector, a map, a two-byte object tagged *)
(* by ref_as_pod, and two buffers tagged by ref_as_raw, of uint8_t         *)
(* (variable 5) and of uint16_t (variable 6).                              *)
(***************************************************************************)
\* The nodes the caller extracts from
ByteSources ==
    { NullNode,
      NumberNode(Dec(7)),
      ArrayNode(<<NumberNode(Dec(7))>>),
      StringNode(<<>>),
      StringNode(<<"f", "3">>),
      StringNode(<<"f", "3", "0">>),
      StringNode(<<"f", "3", "0", "f">>),
      StringNode(<<"1", "t", "0", "E">>),
      StringNode(<<"f", "3", "0", "f", "1", "e">>) }

InitBytes ==
    /\ input = <<>>
    /\ parsed = NotParsed
    /\ tree = NullPtr
    /\ tpls = [NoTemplates EXCEPT ![1] = Empty]
    /\ heap = FreeStore(MaxElements)
    /\ store = <<IntValue(7), VectorValue(<<33>>), MapValue(<<[key |-> <<"a">>, value |-> 1]>>),
                 PodValue(<<171, 9>>), RawValue(FALSE, 0, 1, <<>>), RawValue(FALSE, 0, 2, <<>>)>>
    /\ call = NoCall
    /\ lexer = NoLexer
    /\ shown = NoToken

\* tpl.bind(x), tpl.bind(ref_as_pod(x)) or tpl.bind(ref_as_raw(p, n)), for
\* one of the caller's variables xs
BindTo(t, xs, consts) ==
    /\ Running
    /\ tpls[t].live
    /\ tpls[t].m_impl = NoElement => HasFree(heap)
    /\ \E v \in xs, c \in consts :
          /\ Commit(T_bind(World, t, NewCell(TerminalType(store[v]), v, c)))
          /\ call' = Called("bind", t, T_bind(World, t, NewCell(TerminalType(store[v]), v, c)).out)
    /\ UNCHANGED <<lexer, shown, input, parsed, tree, store>>

\* Some Element bound through a const reference holds the variable v.
ConstBound(h, v) == \E e \in DOMAIN h : h[e].type # "free" /\ h[e].var = v /\ h[e].is_const

\* delete[] p; p = nullptr; by the caller, for its buffer v: no call of the
\* library
SetNull(xs) ==
    /\ Running
    /\ \E v \in xs :
          /\ store[v].alloc
          /\ ~ConstBound(heap, v)
          /\ store' = [store EXCEPT ![v].alloc = FALSE, ![v].list = <<>>]
          /\ call' = [Called("set_null", v, Returned) EXCEPT !.n = call.n]
    /\ UNCHANGED <<lexer, shown, input, parsed, tree, tpls, heap>>

NextBytes ==
    \/ BindTo(1, 1..6, BOOLEAN)
    \/ Extract(1, ByteSources)
    \/ Synthetize(1, {FALSE})
    \/ Reset(1)
    \/ SetNull({5, 6})

SpecBytes == InitBytes /\ [][NextBytes]_vars

(***************************************************************************)
(* What the claims about parse speak of                                    *)
(***************************************************************************)
\* The tokens get() returns on a stream, up to Eof or to n tokens.
RECURSIVE TokensFrom(_, _)
TokensFrom(lx, n) ==
    IF n = 0 THEN <<>>
    ELSE IF seek(lx).type = "Eof" THEN <<seek(lx)>>
    ELSE <<seek(lx)>> \o TokensFrom(get(lx), n - 1)

Tokens(in) == TokensFrom(NewLexer(in), Len(in) + 1)

\* Token t starts before token u in the stream.
StartsBefore(t, u) == t.line < u.line \/ (t.line = u.line /\ t.column < u.column)

\* A value has just ended, a comma follows and the container closes after it.
TrailingComma(toks) ==
    \E i \in 1..Len(toks) :
        /\ i + 2 <= Len(toks)
        /\ toks[i].type \in {"Number", "String", "True", "False", "Null", "RightBrace", "RightBracket"}
        /\ toks[i + 1].type = "Comma"
        /\ toks[i + 2].type \in {"RightBrace", "RightBracket"}

\* No entry of an Object and no element of an Array is the null pointer.
RECURSIVE NoNullChild(_)
NoNullChild(node) ==
    /\ node.type # "nullptr"
    /\ node.type = "Object" => \A i \in 1..Len(node.impl) : NoNullChild(node.impl[i].value)
    /\ node.type = "Array" => \A i \in 1..Len(node.impl) : NoNullChild(node.impl[i])

\* The index of the first token that is a key of an object of the top-level
\* value and repeats a key written before it in that same object (0: none).
\* open is the stack of the containers open at token i: whether each is an
\* object, and the keys written in it so far.
RECURSIVE KeyScan(_, _, _)
KeyScan(toks, i, open) ==
    IF i > Len(toks) THEN 0
    ELSE LET t == toks[i]
             top == open[Len(open)]
         IN  CASE t.type = "LeftBrace" -> KeyScan(toks, i + 1, Append(open, [object |-> TRUE, keys |-> {}]))
               [] t.type = "LeftBracket" -> KeyScan(toks, i + 1, Append(open, [object |-> FALSE, keys |-> {}]))
               [] t.type \in {"RightBrace", "RightBracket"} ->
                     IF Len(open) <= 1 THEN 0 ELSE KeyScan(toks, i + 1, SubSeq(open, 1, Len(open) - 1))
               [] t.type = "String" /\ Len(open) >= 1 /\ i > 1 ->
                     IF top.object /\ toks[i - 1].type \in {"LeftBrace", "Comma"}
                     THEN IF t.value \in top.keys THEN i
                          ELSE KeyScan(toks, i + 1, [open EXCEPT ![Len(open)].keys = @ \cup {t.value}])
                     ELSE KeyScan(toks, i + 1, open)
               [] OTHER -> KeyScan(toks, i + 1, open)

SecondKey(toks) == KeyScan(toks, 1, <<>>)

Redefinition(r) == ~r.ok /\ r.err.kind = "TokenError" /\ r.err.what = "redifinition of object entry"

\* C1 (as claimed): a document with a trailing comma, as in [1,2,] or
\* {"a":1,}, makes parse fail with a token error, and [] and {} are accepted.
C1_TrailingCommaRejected ==
    parsed # NotParsed =>
        /\ TrailingComma(Tokens(input)) => ~parsed.ok /\ parsed.err.kind = "TokenError"
        /\ input \in {<<"[", "]">>, <<"{", "}">>} => parsed.ok

\* C2 (as claimed): parse raises a token error or returns a tree in which
\* every Object entry and every Array element is a node, never a null child.
C2_NoAbsentChild ==
    parsed # NotParsed =>
        IF parsed.ok THEN NoNullChild(parsed.node) ELSE parsed.err.kind = "TokenError"

\* C3: a key written a second time in the same object makes parse fail with a
\* token error; the error is the redefinition error carrying that second key
\* token unless an earlier token already failed; and the redefinition error is
\* raised for nothing else, so the same key in different objects is accepted.
C3_DuplicateKeyRejected ==
    parsed # NotParsed =>
        LET toks == Tokens(input)
            d == SecondKey(toks)
        IN  /\ d # 0 =>
                /\ ~parsed.ok
                /\ parsed.err.kind = "TokenError"
                /\ \/ Redefinition(parsed) /\ parsed.err.token = toks[d]
                   \/ StartsBefore(parsed.err.token, toks[d])
            /\ Redefinition(parsed) => d # 0 /\ parsed.err.token = toks[d]

\* C3 witness: parse has rejected the second "a" of an object that already
\* holds "a".
C3_Witness ==
    /\ Redefinition(parsed)
    /\ parsed.err.token.type = "String"
    /\ SecondKey(Tokens(input)) > 6
    /\ Tokens(input)[SecondKey(Tokens(input)) - 1].type = "Comma"
    /\ Tokens(input)[SecondKey(Tokens(input)) - 2].type = "RightBrace"

\* C4 (as claimed): parsing the compact serialization of a hand-built tree
\* gives back a tree equal to it, whatever its strings and keys hold.
C4_RoundTrip ==
    (parsed # NotParsed /\ input = serialize(tree, FALSE)) =>
        (parsed.ok /\ parsed.node = tree)

(***************************************************************************)
(* What the claims about Templates speak of                                *)
(***************************************************************************)
\* What the Template t wraps: nothing, or the class of its Element
Shape(w, t) == IF Impl(w, t) = NoElement THEN "empty" ELSE w.heap[Impl(w, t)].type

\* The children of the Element the Template t wraps
Bound(w, t) == IF Impl(w, t) = NoElement THEN <<>> ELSE w.heap[Impl(w, t)].elements

\* The step is a call that threw and left every Template and Element as it was.
Rejected ==
    /\ ~call'.ok
    /\ call'.kind = "runtime_error"
    /\ tpls' = tpls
    /\ heap' = heap

\* No Element is bound, at any depth, into itself.
Acyclic(h) == \A e \in DOMAIN h : e \notin Below(h, e)

\* A live Template wraps the Element at e, or a composite holds it.
Owned(e) ==
    \/ \E t \in DOMAIN tpls : tpls[t].live /\ tpls[t].m_impl = e
    \/ \E c \in DOMAIN heap : heap[c].type # "free" /\ e \in Children(heap, c)

\* C6 (as claimed): a live Template that wraps an Element wraps that same
\* Element after every call but its own reset, and a value bind on a Template
\* that wraps an Element throws and leaves it wrapped.
C6_WrappedElementFixed ==
    [][\A t \in Handles :
          /\ (/\ tpls[t].live /\ tpls[t].m_impl # NoElement
              /\ tpls'[t].live
              /\ ~(call'.op = "reset" /\ call'.t = t))
                => tpls'[t].m_impl = tpls[t].m_impl
          /\ (call'.op = "bind" /\ call'.t = t /\ tpls[t].m_impl # NoElement)
                => ~call'.ok /\ tpls'[t].m_impl = tpls[t].m_impl]_vars

\* C7 (as claimed): while the binding graph is acyclic, an Element is on the
\* free store exactly when a live Template or a composite references it.
C7_DestroyedExactlyWhenReleased ==
    (call.kind # "fault" /\ Acyclic(heap)) =>
        \A e \in DOMAIN heap : heap[e].type # "free" <=> Owned(e)

\* C8: the first bind fixes the shape.  A value bind on a Template that wraps
\* an Element, a named bind on one that wraps anything but an Object, and a
\* bind_array on one that wraps anything but an Array, throw a runtime_error
\* and leave every Template and Element unchanged.  On an empty Template the
\* call sets the shape; on an Object a named bind is refused only for a name
\* already bound, and on an Array bind_array is never refused; a call that
\* returns has added one child to the same Element.
C8_FirstBindFixesShape ==
    [][\A t \in Handles : call'.t = t =>
          /\ (call'.op = "bind" /\ Shape(World, t) # "empty") => Rejected
          /\ (call'.op = "bind_named" /\ Shape(World, t) \notin {"empty", "Object"}) => Rejected
          /\ (call'.op = "bind_array" /\ Shape(World, t) \notin {"empty", "Array"}) => Rejected
          /\ (call'.op = "bind" /\ Shape(World, t) = "empty")
                => call'.ok /\ heap'[tpls'[t].m_impl].type = "Scalar"
          /\ (call'.op = "bind_named" /\ Shape(World, t) \in {"empty", "Object"})
                => /\ call'.kind = "runtime_error"
                        => call'.what = "json::Object::bind: element is already bound"
                   /\ call'.ok
                        => /\ heap'[tpls'[t].m_impl].type = "Object"
                           /\ Shape(World, t) = "Object" => tpls'[t].m_impl = tpls[t].m_impl
                           /\ Len(heap'[tpls'[t].m_impl].elements) = Len(Bound(World, t)) + 1
          /\ (call'.op = "bind_array" /\ Shape(World, t) \in {"empty", "Array"})
                => /\ call'.kind # "runtime_error"
                   /\ call'.ok
                        => /\ heap'[tpls'[t].m_impl].type = "Array"
                           /\ Shape(World, t) = "Array" => tpls'[t].m_impl = tpls[t].m_impl
                           /\ Len(heap'[tpls'[t].m_impl].elements) = Len(Bound(World, t)) + 1]_vars

\* C8 witness: bind_array was refused on a Template that wraps an Object
\* with a child.
C8_Witness ==
    /\ call.op = "bind_array"
    /\ ~call.ok
    /\ call.kind = "runtime_error"
    /\ Shape(World, call.t) = "Object"
    /\ Len(Bound(World, call.t)) >= 1

(***************************************************************************)
(* What the claims about extraction and synthesis speak of                 *)
(***************************************************************************)
\* The Element bound as the i-th child of the Element the Template t wraps
Child(w, t, i) == w.heap[Bound(w, t)[i].value]

\* The names bound in the Element the Template t wraps
BoundNames(w, t) == MapKeys(Bound(w, t))

\* The names in the order they were bound
BindingOrder(w, t) == w.heap[Impl(w, t)].order

\* Every integer a variable holds is one a float holds exactly.
InRange(value) ==
    /\ Abs(value.int) <= Pow2(MantissaBits)
    /\ \A i \in 1..Len(value.list) : Abs(value.list[i]) <= Pow2(MantissaBits)
    /\ \A i \in 1..Len(value.dict) : Abs(value.dict[i].value) <= Pow2(MantissaBits)

\* Template d has the shape of Template s: the same names, each bound to a
\* terminal of the same class, and d's to mutable variables, all different.
SameShape(w, s, d) ==
    /\ Shape(w, s) = "Object"
    /\ Shape(w, d) = "Object"
    /\ Len(Bound(w, s)) >= 1
    /\ BoundNames(w, s) = BoundNames(w, d)
    /\ \A i \in 1..Len(Bound(w, s)) :
          /\ Child(w, s, i).type = Child(w, d, i).type
          /\ ~Child(w, d, i).is_const
    /\ \A i, j \in 1..Len(Bound(w, d)) : i # j => Child(w, d, i).var # Child(w, d, j).var

\* The keys of the entries of the document's top-level object, as they
\* follow one another in the text: the quoted strings a colon follows, one
\* brace deep.  open tells whether character i is inside a string, of which
\* key holds the characters so far.
RECURSIVE DocKeysFrom(_, _, _, _, _)
DocKeysFrom(text, i, depth, open, key) ==
    IF i > Len(text) THEN <<>>
    ELSE IF open /\ text[i] # "\"" THEN DocKeysFrom(text, i + 1, depth, TRUE, Append(key, text[i]))
    ELSE IF open /\ depth = 1 /\ i < Len(text) /\ text[i + 1] = ":"
    THEN <<key>> \o DocKeysFrom(text, i + 1, depth, FALSE, <<>>)
    ELSE IF open THEN DocKeysFrom(text, i + 1, depth, FALSE, <<>>)
    ELSE IF text[i] = "\"" THEN DocKeysFrom(text, i + 1, depth, TRUE, <<>>)
    ELSE IF text[i] \in {"{", "["} THEN DocKeysFrom(text, i + 1, depth + 1, FALSE, <<>>)
    ELSE IF text[i] \in {"}", "]"} THEN DocKeysFrom(text, i + 1, depth - 1, FALSE, <<>>)
    ELSE DocKeysFrom(text, i + 1, depth, FALSE, <<>>)

DocKeys(in) == DocKeysFrom(in, 1, 0, FALSE, <<>>)

\* The bound names the entries impl do not hold
Missing(elements, impl) == MapKeys(elements) \ MapKeys(impl)

\* The first of a set of names, in the order of std::string
Least(S) == CHOOSE k \in S : \A x \in S : x = k \/ StrLess(k, x)

\* The node without the entries whose keys are not in names
Restricted(node, names) ==
    [node EXCEPT !.impl = SelectSeq(node.impl, LAMBDA en : en.key \in names)]

\* Every child bound under a name before k extracts from its entry.
EarlierFit(h, elements, impl, st, k) ==
    \A i \in 1..Len(elements) :
        StrLess(elements[i].key, k) =>
            E_extract(h, elements[i].value, MapAt(impl, elements[i].key), st).out.ok

\* C5 (as claimed): a Template whose children are bound to values within
\* float exactness is synthetized to text; extracting that text into a
\* Template of the same shape bound to fresh mutable variables returns, and
\* each variable then holds the value bound under its name.
C5_BindingRoundTrip ==
    (/\ call.op = "extract_text"
     /\ call.t = 2
     /\ SameShape(World, 1, 2)
     /\ \A i \in 1..Len(Bound(World, 1)) : InRange(store[Child(World, 1, i).var])
     /\ input = serialize(T_synthetize(World, 1, store).node, FALSE))
        => /\ call.ok
           /\ \A i \in 1..Len(Bound(World, 1)) :
                 store[Child(World, 2, i).var] = store[Child(World, 1, i).var]

\* C9: extract into a Template that wraps an Object.  From a node that is
\* not an Object it throws a NodeError and sets no variable.  From an Object
\* that lacks a bound name it throws a NodeError, and where the children
\* bound under the names before the first lacking one extract from their
\* entries, the error is "missing element" with that name.  It returns only
\* from an Object that holds every bound name.  The entries under names that
\* are not bound count for nothing: the variables and the outcome are those
\* of the extraction from the node without them.
C9_ObjectExtractNeedsEveryName ==
    [][(call'.op = "extract" /\ Shape(World, call'.t) = "Object") =>
          /\ tree'.type # "Object"
                => ~call'.ok /\ call'.kind = "NodeError" /\ store' = store
          /\ (tree'.type = "Object" /\ Missing(Bound(World, call'.t), tree'.impl) # {})
                => /\ ~call'.ok
                   /\ call'.kind = "NodeError"
                   /\ EarlierFit(heap, Bound(World, call'.t), tree'.impl, store,
                                 Least(Missing(Bound(World, call'.t), tree'.impl)))
                        => /\ call'.what = "json::Object::extract: missing element"
                           /\ call'.key = Least(Missing(Bound(World, call'.t), tree'.impl))
          /\ call'.ok
                => tree'.type = "Object" /\ Missing(Bound(World, call'.t), tree'.impl) = {}
          /\ tree'.type = "Object"
                => /\ store' = T_extract(World, call'.t,
                                         Restricted(tree', BoundNames(World, call'.t)), store).store
                   /\ call' = Called("extract", call'.t,
                                     T_extract(World, call'.t,
                                               Restricted(tree', BoundNames(World, call'.t)), store).out)]_vars

\* C9 witness: an Object with the names "a" and "b" bound has been extracted
\* from an Object that holds "a" and "c": the error names "b".
C9_Witness ==
    /\ call.op = "extract"
    /\ Shape(World, call.t) = "Object"
    /\ BoundNames(World, call.t) = {<<"a">>, <<"b">>}
    /\ tree.type = "Object"
    /\ MapKeys(tree.impl) = {<<"a">>, <<"c">>}
    /\ ~call.ok
    /\ call.kind = "NodeError"
    /\ call.what = "json::Object::extract: missing element"
    /\ call.key = <<"b">>

\* C10 (as claimed): the document synthetized from a Template that wraps an
\* Object holds the bound names as its keys, in the order they were bound.
C10_EntriesInBindingOrder ==
    (call.op = "synthetize" /\ call.ok /\ Shape(World, call.t) = "Object") =>
        DocKeys(input) = BindingOrder(World, call.t)

\* C10 (amended): the document synthetized from a Template that wraps an
\* Object holds exactly one entry per bound child, and the entries follow
\* one another in the ascending order of their names, whatever the order
\* the children were bound in.
C10_EntriesInNameOrder ==
    (call.op = "synthetize" /\ call.ok /\ Shape(World, call.t) = "Object") =>
        /\ tree.type = "Object"
        /\ Len(DocKeys(input)) = Len(BindingOrder(World, call.t))
        /\ \A i \in 1..Len(BindingOrder(World, call.t)) :
              Cardinality({j \in 1..Len(DocKeys(input)) :
                              DocKeys(input)[j] = BindingOrder(World, call.t)[i]}) = 1
        /\ \A i, j \in 1..Len(DocKeys(input)) :
              i < j => StrLess(DocKeys(input)[i], DocKeys(input)[j])

\* C10 witness: "b" was bound before "a", and the Template was synthetized.
C10_Witness ==
    /\ call.op = "synthetize"
    /\ call.ok
    /\ Shape(World, call.t) = "Object"
    /\ BindingOrder(World, call.t) = <<(<<"b">>), (<<"a">>)>>
    /\ DocKeys(input) = <<(<<"a">>), (<<"b">>)>>

\* The step is the call t.bind(name, s).
IsBindNamed(t, name, s) ==
    /\ call'.op = "bind_named"
    /\ call'.t = t
    /\ tpls[t].live /\ tpls[s].live
    /\ Commit(T_bind_named(World, t, name, s))
    /\ call' = Called("bind_named", t, T_bind_named(World, t, name, s).out)

\* C11: a bind under a name the Object already holds throws a runtime_error
\* that names it, the Object keeps the child it had under that name and the
\* children it had, and the reference count of the Element that was to be
\* bound is what it was.
C11_SecondBindUnderNameRejected ==
    [][\A t, s \in Handles : \A name \in Names :
          (/\ IsBindNamed(t, name, s)
           /\ Shape(World, t) = "Object"
           /\ name \in BoundNames(World, t))
             => /\ ~call'.ok
                /\ call'.kind = "runtime_error"
                /\ call'.key = name
                /\ tpls'[t].m_impl = tpls[t].m_impl
                /\ MapAt(heap'[tpls[t].m_impl].elements, name) = MapAt(Bound(World, t), name)
                /\ heap'[tpls[t].m_impl].elements = Bound(World, t)
                /\ tpls[s].m_impl # NoElement
                     => heap'[tpls[s].m_impl].refs = heap[tpls[s].m_impl].refs]_vars

\* C11 witness: a bind was refused for the name of a child the Object holds,
\* and another Template wraps an Element that is not that child.
C11_Witness ==
    /\ call.op = "bind_named"
    /\ ~call.ok
    /\ call.kind = "runtime_error"
    /\ Shape(World, call.t) = "Object"
    /\ call.key \in BoundNames(World, call.t)
    /\ \E s \in Handles :
          /\ tpls[s].live
          /\ tpls[s].m_impl \notin {NoElement, MapAt(Bound(World, call.t), call.key)}

\* The node with no more than its first n entries
Truncated(node, n) ==
    [node EXCEPT !.impl = IF Len(node.impl) > n THEN SubSeq(node.impl, 1, n) ELSE node.impl]

\* Each of the first n children extracts from the entry at its index.
PrefixFits(h, elements, impl, st, n) ==
    \A i \in 1..n : E_extract(h, elements[i].value, impl[i], st).out.ok

\* No child after the i-th is bound to the variable of the i-th.
LastBound(w, t, i) ==
    \A j \in 1..Len(Bound(w, t)) : j > i => Child(w, t, j).var # Child(w, t, i).var

\* C12: extract into a Template that wraps an Array.  From a node that is not
\* an Array it throws a NodeError and sets no variable.  From an Array with
\* fewer entries than bound children it throws a NodeError, which is "size
\* mismatch in array" where the children before the end of the source extract
\* from their entries.  It returns only from an Array with at least as many
\* entries as children, and then each child's variable holds what the child
\* extracts from the entry at its own index.  The entries beyond the children
\* count for nothing: the variables and the outcome are those of the
\* extraction from the node without them.
C12_ArrayExtractByPosition ==
    [][(call'.op = "extract" /\ Shape(World, call'.t) = "Array") =>
          /\ tree'.type # "Array"
                => ~call'.ok /\ call'.kind = "NodeError" /\ store' = store
          /\ (tree'.type = "Array" /\ Len(tree'.impl) < Len(Bound(World, call'.t)))
                => /\ ~call'.ok
                   /\ call'.kind = "NodeError"
                   /\ PrefixFits(heap, Bound(World, call'.t), tree'.impl, store, Len(tree'.impl))
                        => call'.what = "json::Array::extract: size mismatch in array"
          /\ call'.ok
                => /\ tree'.type = "Array"
                   /\ Len(tree'.impl) >= Len(Bound(World, call'.t))
                   /\ \A i \in 1..Len(Bound(World, call'.t)) :
                         LastBound(World, call'.t, i)
                            => store'[Child(World, call'.t, i).var]
                                 = E_extract(heap, Bound(World, call'.t)[i].value, tree'.impl[i],
                                             store).store[Child(World, call'.t, i).var]
          /\ tree'.type = "Array"
                => /\ store' = T_extract(World, call'.t,
                                         Truncated(tree', Len(Bound(World, call'.t))), store).store
                   /\ call' = Called("extract", call'.t,
                                     T_extract(World, call'.t,
                                               Truncated(tree', Len(Bound(World, call'.t))), store).out)]_vars

\* C12 witness: an Array of the variables 4 and 5 was extracted from an Array
\* of three entries, and the variables hold the first two.
C12_Witness ==
    /\ call.op = "extract"
    /\ call.ok
    /\ Shape(World, call.t) = "Array"
    /\ Len(Bound(World, call.t)) = 2
    /\ Child(World, call.t, 1).var = 4
    /\ Child(World, call.t, 2).var = 5
    /\ tree.type = "Array"
    /\ Len(tree.impl) = 3
    /\ store[4] = IntValue(7)
    /\ store[5] = VectorValue(<<8>>)

(***************************************************************************)
(* What the claims about terminals speak of                                *)
(***************************************************************************)
\* The Element the Template t wraps
Wrapped(w, t) == w.heap[Impl(w, t)]

\* The Template t wraps a terminal of one of the five kinds.
WrapsTerminal(w, t) == Shape(w, t) \in {"Scalar", "POD", "Raw", "Vector", "Map"}

\* C13: extract through a binding to a const reference, of whatever kind and
\* from whatever node, throws a NodeError and leaves every variable as it
\* was; synthetize through it returns a node.
C13_ConstBindingRejectsExtract ==
    [][\A t \in Handles :
          (call'.t = t /\ WrapsTerminal(World, t) /\ Wrapped(World, t).is_const) =>
             /\ call'.op = "extract"
                   => ~call'.ok /\ call'.kind = "NodeError" /\ store' = store
             /\ call'.op = "synthetize"
                   => /\ call'.ok
                      /\ tree'.type \in {"Number", "String", "Array", "Object", "Null"}
                      /\ store' = store]_vars

\* C13 witness: extract from a Null node was refused by a const binding of
\* a buffer whose pointer is null.
C13_Witness ==
    /\ call.op = "extract"
    /\ ~call.ok
    /\ call.kind = "NodeError"
    /\ Shape(World, call.t) = "Raw"
    /\ Wrapped(World, call.t).is_const
    /\ ~store[Wrapped(World, call.t).var].alloc
    /\ tree = NullNode

\* The bytes of the object the Template t is bound to
Block(w, t, st) == st[Wrapped(w, t).var].list

\* The value of two characters that are hex digits
HexPair(text, i) == 16 * HexValue(text[i]) + HexValue(text[i + 1])

\* C14: extract through a mutable binding of an object of n bytes returns
\* exactly from a String node of 2n characters; the object then has its n
\* bytes, byte i being the value of the characters 2i and 2i+1 (counted from
\* 0) where these are hex digits, and no other variable has changed.  From
\* every other node it throws a NodeError and leaves every variable as it was.
C14_PodExactLength ==
    [][\A t \in Handles :
          (/\ call'.op = "extract" /\ call'.t = t
           /\ Shape(World, t) = "POD"
           /\ ~Wrapped(World, t).is_const) =>
             /\ call'.ok <=> (tree'.type = "String"
                              /\ Len(tree'.string) = 2 * Len(Block(World, t, store)))
             /\ call'.ok
                   => /\ Len(Block(World, t, store')) = Len(Block(World, t, store))
                      /\ \A i \in 1..Len(Block(World, t, store)) :
                            (IsHex(tree'.string[2 * i - 1]) /\ IsHex(tree'.string[2 * i]))
                               => Block(World, t, store')[i] = HexPair(tree'.string, 2 * i - 1)
                      /\ \A v \in DOMAIN store : v # Wrapped(World, t).var => store'[v] = store[v]
             /\ ~call'.ok => call'.kind = "NodeError" /\ store' = store]_vars

\* C14 witness: the object of two bytes was extracted from "f30f".
C14_Witness ==
    /\ call.op = "extract"
    /\ call.ok
    /\ Shape(World, call.t) = "POD"
    /\ tree = StringNode(<<"f", "3", "0", "f">>)
    /\ Block(World, call.t, store) = <<243, 15>>

\* The buffer the Template t is bound to
Buffer(w, t, st) == st[Wrapped(w, t).var]

\* The call is one of Template t, which wraps a buffer.
OnBuffer(op, t) == call'.op = op /\ call'.t = t /\ Shape(World, t) = "Raw"

\* C15: extract through a mutable binding of a buffer whose pointer is null,
\* from a Null node, returns and leaves the size 0 and the pointer null, and
\* no other variable changed; synthetize of a buffer whose size is 0 or whose
\* pointer is null returns a Null node and writes null.
C15_AbsentBuffer ==
    [][\A t \in Handles :
          /\ (/\ OnBuffer("extract", t)
              /\ ~Wrapped(World, t).is_const
              /\ ~Buffer(World, t, store).alloc
              /\ tree' = NullNode)
                => /\ call'.ok
                   /\ Buffer(World, t, store').int = 0
                   /\ ~Buffer(World, t, store').alloc
                   /\ \A v \in DOMAIN store : v # Wrapped(World, t).var => store'[v] = store[v]
          /\ (/\ OnBuffer("synthetize", t)
              /\ (Buffer(World, t, store).int = 0 \/ ~Buffer(World, t, store).alloc))
                => /\ call'.ok
                   /\ tree' = NullNode
                   /\ input' = <<"n", "u", "l", "l">>]_vars

\* C15 witness: a buffer whose pointer is null was extracted from a Null
\* node.
C15_Witness ==
    /\ call.op = "extract"
    /\ call.ok
    /\ Shape(World, call.t) = "Raw"
    /\ tree = NullNode
    /\ Buffer(World, call.t, store).int = 0
    /\ ~Buffer(World, call.t, store).alloc

\* C16: extract through a binding of a buffer whose pointer is not null
\* throws a NodeError, whatever the node, and leaves every variable as it
\* was.  An extract that returns from a String node, an empty one too, leaves
\* the pointer not null, so that the next is refused; once the caller has set
\* the pointer to null an extract from a String node of an even length
\* returns again.
C16_PopulatedBufferRejected ==
    [][\A t \in Handles :
          OnBuffer("extract", t) =>
             /\ Buffer(World, t, store).alloc
                   => ~call'.ok /\ call'.kind = "NodeError" /\ store' = store
             /\ (call'.ok /\ tree'.type = "String") => Buffer(World, t, store').alloc
             /\ (/\ ~Buffer(World, t, store).alloc
                 /\ ~Wrapped(World, t).is_const
                 /\ tree'.type = "String"
                 /\ Len(tree'.string) % 2 = 0) => call'.ok]_vars

\* C16 witness: after an extract from the empty string, an extract from a
\* Null node was refused.
C16_Witness ==
    /\ call.op = "extract"
    /\ ~call.ok
    /\ call.what = "json::Raw::extract: target memory is already allocated"
    /\ Shape(World, call.t) = "Raw"
    /\ tree = NullNode
    /\ Buffer(World, call.t, store).alloc
    /\ Buffer(World, call.t, store).int = 0

\* C17 (as claimed): extract of a buffer of elements of w bytes from a String
\* node whose length is no multiple of 2w throws a NodeError.
C17_BufferSizeMismatch ==
    (/\ call.op = "extract"
     /\ Shape(World, call.t) = "Raw"
     /\ tree.type = "String"
     /\ Len(tree.string) % (2 * Buffer(World, call.t, store).width) # 0)
        => ~call.ok /\ call.kind = "NodeError"

\* C18 (as claimed): a parse that throws throws a TokenError with a message,
\* whose token has the line and the column it was read at.
C18_FailureIsSyntaxError ==
    (parsed # NotParsed /\ ~parsed.ok /\ parsed.err.kind # "stack_exhausted") =>
        /\ parsed.err.kind = "TokenError"
        /\ parsed.err.what # ""
        /\ parsed.err.token.line >= 1
        /\ parsed.err.token.column >= 1


(***************************************************************************)
(* What the claims about the lexer speak of                                *)
(***************************************************************************)
\* Every character of the text has been read: m_nextChar is EOF
AtEnd(lx) == lx.pos > Len(lx.in)

\* C19: seek() returns the same token however often it is called and leaves
\* the lexer as it was; the get() after a seek() returns the token that
\* seek() showed; a get() made once every character has been read leaves Eof
\* as the next token; and after a call has returned Eof every later call
\* returns Eof.
C19_Lookahead ==
    [][/\ shown'.op = "seek" =>
            /\ lexer' = lexer
            /\ shown.op = "seek" => shown'.token = shown.token
       /\ (shown.op = "seek" /\ shown'.op = "get") => shown'.token = shown.token
       /\ (shown'.op = "get" /\ AtEnd(lexer)) => seek(lexer').type = "Eof"
       /\ (shown.op # "none" /\ shown.token.type = "Eof") =>
            shown'.token.type = "Eof"]_vars

\* A get() returned Eof on a text of several tokens, after the seek() and
\* get() calls that went through them.
C19_Witness ==
    /\ shown.op = "get"
    /\ shown.token.type = "Eof"
    /\ Len(Tokens(input)) >= 3
    /\ AtEnd(lexer)

\* How the string literal opened before in[i] ends: closed by a quote, at an
\* escape sequence that is none of \\ \" \n \t, or by the end of the text
RECURSIVE LiteralEnd(_, _)
LiteralEnd(in, i) ==
    IF i > Len(in) THEN "unterminated"
    ELSE IF in[i] = "\"" THEN "closed"
    ELSE IF in[i] # "\\" THEN LiteralEnd(in, i + 1)
    ELSE IF i + 1 > Len(in) THEN "unterminated"
    ELSE IF in[i + 1] \in {"\\", "\"", "n", "t"} THEN LiteralEnd(in, i + 2)
    ELSE "escape"

\* C20: a string literal with a backslash before a character other than
\* \, ", n, t, or one the text ends in before its closing quote, is a Bad
\* token, whatever follows the offending position.
C20_MalformedStringIsBad ==
    (/\ lexer # NoLexer
     /\ shown = NoToken
     /\ Len(input) > 0
     /\ input[1] = "\""
     /\ LiteralEnd(input, 2) # "closed") =>
        seek(lexer).type = "Bad"

\* C21: the tokens of a finite text are finitely many: a get() that leaves a
\* token other than Eof as the next one has read at least one character, so
\* that repeated get() calls come to Eof.
C21_EveryTokenConsumes ==
    [][(lexer # NoLexer /\ shown'.op = "get" /\ seek(lexer').type # "Eof") =>
            lexer'.pos > lexer.pos]_vars

\* The position after an optional `-' at position i of a text
AfterSign(text, i) == IF i <= Len(text) /\ text[i] = "-" THEN i + 1 ELSE i

\* The position after the digits that start at position i of a text
RECURSIVE AfterDigits(_, _)
AfterDigits(text, i) ==
    IF i <= Len(text) /\ IsDigit(text[i]) THEN AfterDigits(text, i + 1) ELSE i

\* The character at position i of a text is one of cs
IsAt(text, i, cs) == i <= Len(text) /\ text[i] \in cs

\* The position after an optional `.' and its digits; 0 when no digit follows it
AfterFraction(text, i) ==
    IF ~IsAt(text, i, {"."}) THEN i
    ELSE IF AfterDigits(text, i + 1) = i + 1 THEN 0
    ELSE AfterDigits(text, i + 1)

\* The position after an optional exponent; 0 when no digit follows its marker
AfterExponent(text, i) ==
    IF ~IsAt(text, i, {"e", "E"}) THEN i
    ELSE IF AfterDigits(text, AfterSign(text, i + 1)) = AfterSign(text, i + 1) THEN 0
    ELSE AfterDigits(text, AfterSign(text, i + 1))

\* The text is a literal of -?digits(.digits)?([eE]-?digits)?
IsLiteral(text) ==
    /\ AfterDigits(text, AfterSign(text, 1)) > AfterSign(text, 1)
    /\ AfterFraction(text, AfterDigits(text, AfterSign(text, 1))) # 0
    /\ AfterExponent(text, AfterFraction(text, AfterDigits(text, AfterSign(text, 1)))) =
            Len(text) + 1

\* The text starts with sign and digits and then a `.' with no digit after it,
\* or with sign, digits and fraction and then an exponent marker with no digit
DanglingMark(text) ==
    \/ AfterFraction(text, AfterDigits(text, AfterSign(text, 1))) = 0
    \/ /\ AfterFraction(text, AfterDigits(text, AfterSign(text, 1))) # 0
       /\ AfterExponent(text, AfterFraction(text, AfterDigits(text, AfterSign(text, 1)))) = 0

\* C22: the text of every Number token is a literal of
\* -?digits(.digits)?([eE]-?digits)?, with at least one integer digit, and a
\* text whose `.' or exponent marker has no digit after it gives a Bad token.
C22_NumberTokensAreLiterals ==
    /\ (lexer # NoLexer /\ seek(lexer).type = "Number") => IsLiteral(seek(lexer).value)
    /\ (lexer # NoLexer /\ shown = NoToken /\ DanglingMark(input)) =>
            seek(lexer).type = "Bad"

(***************************************************************************)
(* What the claims about the printer speak of                              *)
(***************************************************************************)
\* The text goes over several lines
SeveralLines(text) == \E i \in 1..Len(text) : text[i] = "\n"

\* The children of an Object or Array node
ChildNodes(node) ==
    IF node.type = "Object" THEN [i \in 1..Len(node.impl) |-> node.impl[i].value]
    ELSE IF node.type = "Array" THEN node.impl
    ELSE <<>>

\* The node has a child that is an Object or an Array
HasContainer(node) ==
    \E i \in 1..Len(ChildNodes(node)) : ChildNodes(node)[i].type \in {"Object", "Array"}

\* C23: the text serialized from an Object or Array goes over several lines
\* only if the node has an Object or Array below it, so that a container of
\* scalars is on one line; and the compact text is never on several lines.
C23_LineLayout ==
    (input # <<>> /\ parsed = NotParsed /\ tree.type \in {"Object", "Array"}) =>
        /\ SeveralLines(input) => HasContainer(tree)
        /\ input = serialize(tree, FALSE) => ~SeveralLines(input)

(***************************************************************************)
(* What the claims about reference counts and child slots speak of         *)
(***************************************************************************)
\* The live Templates that wrap the Element at e
Wrappers(e) == {t \in DOMAIN tpls : tpls[t].live /\ tpls[t].m_impl = e}

\* The child slots, of the composites on the free store, that hold the Element at e
Slots(e) ==
    {<<c, i>> \in (DOMAIN heap) \X (1..(2 * MaxCalls)) :
        /\ heap[c].type # "free"
        /\ i <= Len(heap[c].elements)
        /\ heap[c].elements[i].value = e}

\* Every Element on the free store counts its Templates and its slots.
RefsCounted ==
    \A e \in DOMAIN heap :
        heap[e].type # "free" => heap[e].refs = Cardinality(Wrappers(e)) + Cardinality(Slots(e))

\* C24: after every Template operation the reference count of each Element on
\* the free store is the number of live Templates that wrap it plus the
\* number of child slots that hold it, and a copy or an assignment from a
\* bound Template wraps the same Element and raises its count by one.
C24_ReferenceCount ==
    /\ [](call.kind # "fault" => RefsCounted)
    /\ [][\A t \in Handles :
            (call'.t = t /\ call'.op \in {"copy", "assign"} /\ tpls'[t].m_impl # NoElement) =>
                /\ \E s \in Handles : tpls[s].live /\ tpls'[t].m_impl = tpls[s].m_impl
                /\ heap'[tpls'[t].m_impl].refs = heap[tpls'[t].m_impl].refs + 1]_vars

\* The messages of the NodeError an extract through a const binding throws
ConstRefusals ==
    { "json::Scalar[const]::extract extracting to const binding",
      "json::Vector[const]::extract: extracting to const binding",
      "json::Map[const]::extract: extracting to const binding",
      "json::POD[const]::extract: extracting to const binding",
      "json::Raw[const]::extract: extracting to const binding" }

\* C25: for a terminal of every kind, isConst() is true exactly when the
\* Element was bound to a const reference or a temporary, which is exactly
\* when extract on it is refused with the const-binding error.
C25_ConstnessReported ==
    [][\A t \in Handles :
          (call'.t = t /\ call'.op = "extract" /\ WrapsTerminal(World, t)) =>
             /\ isConst(Wrapped(World, t)) <=> Wrapped(World, t).is_const
             /\ isConst(Wrapped(World, t)) <=>
                    (~call'.ok /\ call'.kind = "NodeError" /\ call'.what \in ConstRefusals)]_vars

\* C26: parse reads one top-level value.  On a text made of a document that
\* parse accepts and of whatever follows it, parse returns the tree of the
\* document alone and throws nothing.
C26_OneTopLevelValue ==
    (parsed # NotParsed /\ HasDoc(input)) =>
        /\ parsed.ok
        /\ parsed.node = parse(Doc(input)).node

\* parse returned on a text that goes on after its document with a token
\* that starts no value, or with a malformed one.
C26_Witness ==
    /\ parsed # NotParsed
    /\ parsed.ok
    /\ HasDoc(input)
    /\ Len(input) = Len(Doc(input)) + MaxTrail
    /\ input[Len(Doc(input)) + 1] \in {"x", ",", "]"}
    /\ Len(Doc(input)) >= 3

\* The step is the call t.bind_array(s).
IsBindArray(t, s) ==
    /\ call'.op = "bind_array"
    /\ call'.t = t
    /\ tpls[t].live /\ tpls[s].live
    /\ Commit(T_bind_array(World, t, s))
    /\ call' = Called("bind_array", t, T_bind_array(World, t, s).out)

\* Every child slot of a composite on the free store holds an Element on it.
SlotsHold ==
    \A c \in DOMAIN heap : \A i \in 1..Len(heap[c].elements) :
        heap[c].type # "free" =>
            /\ heap[c].elements[i].value # NoElement
            /\ heap[heap[c].elements[i].value].type # "free"

\* C27: every child slot of an Object or Array holds an Element, and a named
\* bind or a bind_array of a Template that wraps nothing throws a
\* runtime_error, dereferences no null pointer and leaves every Template,
\* the parent among them, and every Element as it was.
C27_UnboundChildRejected ==
    /\ []SlotsHold
    /\ [][\A t, s \in Handles :
            /\ (Impl(World, s) = NoElement /\ \E name \in Names : IsBindNamed(t, name, s))
                    => Rejected
            /\ (Impl(World, s) = NoElement /\ IsBindArray(t, s)) => Rejected]_vars

\* C28: get(key) on an Object node leaves the node as it was: exists() of
\* every key is what it was before the call, so that the lookup of a key the
\* node does not hold adds no entry, and every entry is a node.
C28_LookupChangesNothing ==
    [][\A key \in LookupKeys :
          Lookup(key) =>
             /\ \A k \in LookupKeys : exists(tree'.impl, k) = exists(tree.impl, k)
             /\ NoNullChild(tree) => NoNullChild(tree')]_vars
=============================================================================
